---- MODULE Spec2Model ----
(***************************************************************************)
(* Extraction orchestration of xtra: BaseExtractor.extract_pages,          *)
(* extract, extract_pages_async, extract_async (xtra/extractors/base.py)   *)
(* and the batch orchestrator extract_structured_parallel, _extract_batch, *)
(* _batch_pages (xtra/llm_factory.py).                                     *)
(***************************************************************************)
EXTENDS Integers, Sequences, FiniteSets, TLC

\* ------------------------------------------------------------------ bounds
\* Longest requested page sequence.
MaxLen == 3
\* page_count of the document; requested indices range over 0..NumPages, so
\* that the index NumPages is out of range.
NumPages == 2
\* Largest max_workers value a caller passes.
MaxWorkers == 2
\* Largest pages_per_batch value a caller passes.
MaxPerBatch == 2
\* Largest coordinate of a corner of a raw detection.
MaxCoord == 1
\* Largest page width and height, in the page's unit.
MaxDim == 2
\* Largest number of characters on a text page.
MaxChars == 3
\* Height of the text page.
PageHeight == 30
\* Largest number of images an extractor loads.
MaxImages == 2
\* Largest number of close() calls on one extractor.
MaxCloses == 2
\* Number of threads that call get_reader.
NumThreads == 2
\* Largest number of get_reader calls of one thread.
MaxCalls == 2
\* Largest number of batch results of one LLMBatchExtractionResult.
MaxBatches == 3

VARIABLES
    \* ---- extraction orchestrator (xtra/extractors/base.py)
    api,          \* "sync" (extract / extract_pages) or "async" (extract_async / extract_pages_async)
    executor,     \* "thread" or "process"
    pages,        \* the pages argument: None or a sequence of page numbers
    max_workers,  \* the max_workers argument
    raising,      \* the pages for which the backend's extract_page raises
    pc,           \* position of the call
    pages_list,   \* list(pages)
    fut,          \* per request position: state of the future submitted to the pool
    cur,          \* request position whose extract_page call runs in the sequential path, 0 if none
    results,      \* sync: the pre-sized results array; sequential paths: the list built so far
    raw_results,  \* async parallel path: what asyncio.gather collects, per task position
    document,     \* Document.pages assembled by extract / extract_async
    trace,        \* sequential paths: the extract_page calls, <<"call", i>> and <<"end", i>> in order
    subs,         \* per request position: how many times its call was submitted to the pool
    writes,       \* per request position: how many times results[idx] was assigned
    ran_on,       \* the threads extract_page was called on
    wrote_on,     \* the threads that assigned a slot of results
    \* ---- batch orchestrator (xtra/llm_factory.py)
    b_pages,          \* the pages argument of extract_structured_parallel
    pages_per_batch,  \* the pages_per_batch argument
    b_max_workers,    \* the max_workers argument
    b_executor,       \* ExecutorType.THREAD or ExecutorType.PROCESS
    b_failing,        \* the pages on which the provider's extract_structured raises
    b_pc,             \* position of the call
    batches,          \* _batch_pages(pages, pages_per_batch)
    b_fut,            \* per batch: state of the future submitted to the pool
    batch_results,    \* the results list / the pre-sized parallel_results array
    b_subs,           \* per batch: how many times its extraction was submitted to the pool
    b_writes,         \* per batch: how many times parallel_results[idx] was assigned
    b_wrote_on,       \* the threads that assigned a slot of parallel_results
    \* ---- backend result converters (polygon to bbox and rotation)
    g_backend,    \* "azure", "easyocr" or "paddle"
    g_points,     \* the corners of the raw detection, a sequence of <<x, y>>
    g_extra,      \* the flat form carries one more trailing value
    g_text,       \* the text of the raw detection
    g_pc,         \* "start", "done", or "raised" when the converter raised
    g_out,        \* what _polygon_to_bbox_and_rotation gave, None when it was not called
    g_blocks,     \* the TextBlocks the converter returned
    \* ---- coordinate conversion of a page
    c_caller,     \* "convert": _convert_page called directly, "pdf": PdfExtractor.extract_page
    c_source,     \* source_unit
    c_output,     \* self.output_unit
    c_dpi,        \* dpi, NoDpi when the caller passes none
    c_page,       \* the page in the source unit
    c_ref,        \* the page size in points, the reference of the normalized unit
    c_pc,         \* "start", "converted", "raised", "back", "raisedback", "extracted"
    c_out,        \* the outcome of the conversion (or of extract_page)
    c_back,       \* the outcome of converting c_out's page back to the source unit
    \* ---- character mergers
    m_merger,      \* "line": BasicLineMerger, "keep": KeepCharacterMerger
    m_chars,       \* chars: the CharInfo list, in input order
    m_textpage,    \* textpage: None or the text page the fonts are read from
    m_page_height, \* page_height
    m_pc,          \* "start" or "done"
    m_blocks,      \* the TextBlocks merge returned
    m_runs,        \* the runs of characters merge finalized (positions in chars)
    \* ---- image-based extractor
    i_loaded,      \* the images _load_images loaded, by identity 1..n
    i_images,      \* self._images
    i_closed,      \* the images whose close() was called
    i_closes,      \* how many times close() of the extractor was called
    i_with,        \* "none", "inside" or "exited": the with-block around the extractor
    i_last,        \* the last call made on the extractor and its outcome
    \* ---- cached OCR reader
    r_cache,       \* _reader_cache: key -> reader, 0 while the key is absent
    r_pc,          \* per thread: "idle", "check", "construct", "store", "return"
    r_key,         \* per thread: the key of the call in progress
    r_new,         \* per thread: the reader it constructed and has not stored yet
    r_calls,       \* per thread: the calls it has made
    r_made,        \* key -> the readers constructed for the key
    r_returned,    \* the pairs <<key, reader>> get_reader returned
    \* ---- LLMBatchExtractionResult
    a_batch_results, \* self.batch_results
    a_pc,            \* "start", or the property that was read
    a_out            \* the value of the property

\* The record of the calls extract_pages and extract_pages_async made.
hvars == <<trace, subs, writes, ran_on, wrote_on>>

ovars == <<api, executor, pages, max_workers, raising, pc, pages_list, fut, cur,
           results, raw_results, document, hvars>>

\* The record of the calls extract_structured_parallel made.
bhvars == <<b_subs, b_writes, b_wrote_on>>

bvars == <<b_pages, pages_per_batch, b_max_workers, b_executor, b_failing, b_pc,
           batches, b_fut, batch_results, bhvars>>

gvars == <<g_backend, g_points, g_extra, g_text, g_pc, g_out, g_blocks>>

\* The variables of the components other than the two orchestrators.
cvars == <<c_caller, c_source, c_output, c_dpi, c_page, c_ref, c_pc, c_out, c_back>>

mvars == <<m_merger, m_chars, m_textpage, m_page_height, m_pc, m_blocks, m_runs>>

ivars == <<i_loaded, i_images, i_closed, i_closes, i_with, i_last>>

rvars == <<r_cache, r_pc, r_key, r_new, r_calls, r_made, r_returned>>

avars == <<a_batch_results, a_pc, a_out>>

yvars == <<ivars, rvars, avars>>

xvars == <<gvars, cvars, mvars, yvars>>

vars == <<ovars, bvars, xvars>>

\* ------------------------------------------------------------------ values
NoneVal == [none |-> TRUE]

\* An Optional[Sequence[int]] argument.
NoPages == [isNone |-> TRUE, list |-> <<>>]
SomePages(s) == [isNone |-> FALSE, list |-> s]

PageNumbers == 0..NumPages

RECURSIVE SeqsUpTo(_, _)
SeqsUpTo(S, n) ==
    IF n = 0 THEN {<<>>}
    ELSE LET shorter == SeqsUpTo(S, n - 1)
         IN  shorter \cup {Append(s, x) : s \in {t \in shorter : Len(t) = n - 1}, x \in S}

Range(n) == [i \in 1..n |-> i - 1]

MkPage(p, w, h) == [page |-> p, width |-> w, height |-> h, texts |-> <<>>]

MkResult(pg, ok, err) == [page |-> pg, success |-> ok, error |-> err]

\* The backend: what extract_page(p) does. It returns a successful result for a
\* page of the document, a failed result for an index out of range, and raises
\* for the pages in `raising`.
ExtractPage(p) ==
    IF p \in raising
    THEN [kind |-> "raise", msg |-> "Simulated error"]
    ELSE IF p >= NumPages
    THEN [kind |-> "return",
          value |-> MkResult(MkPage(p, 0, 0), FALSE, "Page out of range")]
    ELSE [kind |-> "return", value |-> MkResult(MkPage(p, 100, 100), TRUE, "None")]

\* Mutant: the empty page is numbered with the position, not the requested page.
FailedResultAtIdx(plist, idx, msg) == MkResult(MkPage(idx - 1, 0, 0), FALSE, msg)

\* The ExtractionResult the orchestrator builds for an exception at position idx.
FailedResult(plist, idx, msg) == MkResult(MkPage(plist[idx], 0, 0), FALSE, msg)

\* list(pages), with pages = None meaning range(get_page_count()).
PagesList(pgs) == IF pgs.isNone THEN Range(NumPages) ELSE pgs.list

IsSequential(mw, plist) == mw <= 1 \/ Len(plist) <= 1

\* ------------------------------------------------------------------ call record
\* No call is recorded yet for any of n request positions.
NoCalls(n) == [i \in 1..n |-> 0]

\* One more call is recorded for position idx.
CountCall(counts, idx) == [counts EXCEPT ![idx] = @ + 1]

\* ------------------------------------------------------------------ pool
Running == {i \in DOMAIN fut : fut[i] = "running"}

\* Mutant: the pool starts every queued call at once.
PoolAlwaysStarts(mw, running) == TRUE

\* A pool of max_workers workers starts a queued call only on an idle worker.
PoolHasIdleWorker(mw, running) == Cardinality(running) < mw

\* Mutant: results are appended in completion order.
StoreResultAppend(res, idx, r) ==
    LET k == CHOOSE j \in 1..Len(res) :
                 /\ res[j] = NoneVal
                 /\ \A h \in 1..(j - 1) : res[h] # NoneVal
    IN  [res EXCEPT ![k] = r]

\* Mutant: the slot is chosen by the page number of the result, not by the
\* request position.
StoreResultAtPage(res, idx, r) == [res EXCEPT ![r.page.page + 1] = r]

\* results[idx] = r
StoreResult(res, idx, r) == [res EXCEPT ![idx] = r]

\* Mutant: outcomes are kept in completion order (as asyncio.as_completed would).
GatherStoreAppend(raw, idx, o) ==
    LET k == CHOOSE j \in 1..Len(raw) :
                 /\ raw[j] = NoneVal
                 /\ \A h \in 1..(j - 1) : raw[h] # NoneVal
    IN  [raw EXCEPT ![k] = o]

\* asyncio.gather keeps each task's outcome at the position of the task.
GatherStore(raw, idx, o) == [raw EXCEPT ![idx] = o]

\* base.py 166-177: a raw result that is an ExtractionResult is kept, anything
\* else (an exception) becomes a failed result for the page at that position.
ConvertRaw(raw, plist) ==
    [i \in 1..Len(raw) |->
        IF raw[i].kind = "return" THEN raw[i].value
        ELSE FailedResult(plist, i, raw[i].msg)]

\* Mutant: the success filter is missing.
ExtractedPagesAll(rs) == [i \in 1..Len(rs) |-> rs[i].page]

\* [r.page for r in results if r.success]
ExtractedPages(rs) ==
    LET ok == SelectSeq(rs, LAMBDA r : r.success)
    IN  [i \in 1..Len(ok) |-> ok[i].page]

\* ------------------------------------------------------------------ batch values
\* Mutant: a trailing chunk shorter than pages_per_batch is lost.
BatchPagesFloor(pgs, n) ==
    [k \in 1..(Len(pgs) \div n) |-> SubSeq(pgs, (k - 1) * n + 1, k * n)]

\* _batch_pages: [pages[i : i + n] for i in range(0, len(pages), n)], and [] for
\* an empty list.
BatchPages(pgs, n) ==
    IF Len(pgs) = 0 THEN <<>>
    ELSE [k \in 1..((Len(pgs) + n - 1) \div n) |->
             SubSeq(pgs, (k - 1) * n + 1,
                    IF k * n <= Len(pgs) THEN k * n ELSE Len(pgs))]

SeqToSet(sq) == {sq[i] : i \in 1..Len(sq)}

\* The provider: extract_structured(pages=batch) returns data for the batch, or
\* raises when the batch holds a page the provider fails on.
ExtractStructured(batch) ==
    IF SeqToSet(batch) \cap b_failing # {}
    THEN [kind |-> "raise", msg |-> "API error"]
    ELSE [kind |-> "return", data |-> [pages |-> batch], usage |-> NoneVal]

MkBatchResult(data, batch, usage, ok, err) ==
    [data |-> data, pages |-> batch, model |-> "gpt-4o", provider |-> "openai",
     usage |-> usage, success |-> ok, error |-> err]

\* Mutant: the failed batch result does not carry the pages of its batch.
FailedBatchNoPages(batch, msg) == MkBatchResult(NoneVal, <<>>, NoneVal, FALSE, msg)

\* LLMBatchResult(data=None, pages=batch, success=False, error=str(e))
FailedBatch(batch, msg) == MkBatchResult(NoneVal, batch, NoneVal, FALSE, msg)

\* _extract_batch: the provider's result as a batch result; an exception becomes
\* a failed batch result.
ExtractBatch(batch) ==
    LET o == ExtractStructured(batch) IN
    IF o.kind = "return"
    THEN MkBatchResult(o.data, batch, o.usage, TRUE, "None")
    ELSE FailedBatch(batch, o.msg)

\* future.result() of a submitted _extract_batch call: the batch result that
\* _extract_batch returned (it catches every Exception of the provider itself).
FutureResult(batch) == [kind |-> "return", value |-> ExtractBatch(batch)]

BRunning == {i \in DOMAIN b_fut : b_fut[i] = "running"}

\* Mutant: batch results are appended in completion order.
StoreBatchAppend(res, idx, r) ==
    LET k == CHOOSE j \in 1..Len(res) :
                 /\ res[j] = NoneVal
                 /\ \A h \in 1..(j - 1) : res[h] # NoneVal
    IN  [res EXCEPT ![k] = r]

\* parallel_results[idx] = r
StoreBatch(res, idx, r) == [res EXCEPT ![idx] = r]

\* The batch orchestrator is not called.
BatchIdle ==
    /\ b_pages = NoPages
    /\ pages_per_batch = 1
    /\ b_max_workers = 1
    /\ b_executor = "thread"
    /\ b_failing = {}
    /\ b_pc = "idle"
    /\ batches = <<>>
    /\ b_fut = <<>>
    /\ batch_results = <<>>
    /\ b_subs = <<>>
    /\ b_writes = <<>>
    /\ b_wrote_on = {}

\* The extraction orchestrator is not called.
ExtractorIdle ==
    /\ api = "sync"
    /\ executor = "thread"
    /\ pages = NoPages
    /\ max_workers = 1
    /\ raising = {}
    /\ pc = "idle"
    /\ pages_list = <<>>
    /\ fut = <<>>
    /\ cur = 0
    /\ results = <<>>
    /\ raw_results = <<>>
    /\ document = NoneVal
    /\ trace = <<>>
    /\ subs = <<>>
    /\ writes = <<>>
    /\ ran_on = {}
    /\ wrote_on = {}

\* ------------------------------------------------------------------ geometry values
AbsVal(a) == IF a >= 0 THEN a ELSE -a

RECURSIVE Gcd(_, _)
Gcd(a, b) == IF b = 0 THEN a ELSE Gcd(b, a % b)

SetMin(S) == CHOOSE a \in S : \A b \in S : a <= b

SetMax(S) == CHOOSE a \in S : \A b \in S : a >= b

\* An angle is kept as the direction it points in: the vector (dx, dy) in
\* lowest terms. Two angles are equal exactly when their directions are.
ZeroDegrees == [dx |-> 1, dy |-> 0]

\* Mutant: the arguments of atan2 are exchanged.
Atan2DegreesSwapped(dy, dx) ==
    IF dx = 0 /\ dy = 0 THEN ZeroDegrees
    ELSE LET g == Gcd(AbsVal(dx), AbsVal(dy))
         IN  [dx |-> dy \div g, dy |-> dx \div g]

\* math.degrees(math.atan2(dy, dx)); atan2(0, 0) is 0.0.
Atan2Degrees(dy, dx) ==
    IF dx = 0 /\ dy = 0 THEN ZeroDegrees
    ELSE LET g == Gcd(AbsVal(dx), AbsVal(dy))
         IN  [dx |-> dx \div g, dy |-> dy \div g]

MkBBox(x0, y0, x1, y1) == [x0 |-> x0, y0 |-> y0, x1 |-> x1, y1 |-> y1]

ZeroBBox == MkBBox(0, 0, 0, 0)

Returns(bbox, rotation) == [kind |-> "return", bbox |-> bbox, rotation |-> rotation]

Raises(exc) == [kind |-> "raise", exc |-> exc]

MkTextBlock(text, bbox, rotation) == [text |-> text, bbox |-> bbox, rotation |-> rotation]

\* The flat form [x0, y0, x1, y1, ...] of a sequence of corners.
FlatPolygon(pts, extra) ==
    [i \in 1..(2 * Len(pts) + (IF extra THEN 1 ELSE 0)) |->
        IF i > 2 * Len(pts) THEN 0 ELSE pts[(i + 1) \div 2][2 - (i % 2)]]

\* Mutant: the box is taken from the first and the third corner only.
AzurePolygonFromDiagonal(polygon) ==
    IF Len(polygon) < 8 THEN Returns(ZeroBBox, ZeroDegrees)
    ELSE Returns(MkBBox(polygon[1], polygon[2], polygon[5], polygon[6]),
                 Atan2Degrees(polygon[4] - polygon[2], polygon[3] - polygon[1]))

\* AzureDocumentIntelligenceAdapter._polygon_to_bbox_and_rotation (flat form).
AzurePolygonToBBoxAndRotation(polygon) ==
    IF Len(polygon) < 8 THEN Returns(ZeroBBox, ZeroDegrees)
    ELSE LET points == [k \in 1..4 |-> <<polygon[2 * k - 1], polygon[2 * k]>>]
             xs == {points[k][1] : k \in 1..4}
             ys == {points[k][2] : k \in 1..4}
         IN  Returns(MkBBox(SetMin(xs), SetMin(ys), SetMax(xs), SetMax(ys)),
                     Atan2Degrees(points[2][2] - points[1][2], points[2][1] - points[1][1]))

\* EasyOcrExtractor._polygon_to_bbox_and_rotation (point-list form): min() of an
\* empty list raises ValueError, polygon[1] of a one-point list raises IndexError.
EasyOcrPolygonToBBoxAndRotation(polygon) ==
    IF Len(polygon) = 0 THEN Raises("ValueError")
    ELSE IF Len(polygon) = 1 THEN Raises("IndexError")
    ELSE LET xs == {polygon[k][1] : k \in 1..Len(polygon)}
             ys == {polygon[k][2] : k \in 1..Len(polygon)}
         IN  Returns(MkBBox(SetMin(xs), SetMin(ys), SetMax(xs), SetMax(ys)),
                     Atan2Degrees(polygon[2][2] - polygon[1][2],
                                  polygon[2][1] - polygon[1][1]))

\* PaddleOcrExtractor._polygon_to_bbox_and_rotation (point-list form), with its
\* guard for the zero vector.
PaddlePolygonToBBoxAndRotation(polygon) ==
    IF Len(polygon) = 0 THEN Raises("ValueError")
    ELSE IF Len(polygon) = 1 THEN Raises("IndexError")
    ELSE LET xs == {polygon[k][1] : k \in 1..Len(polygon)}
             ys == {polygon[k][2] : k \in 1..Len(polygon)}
             dx == polygon[2][1] - polygon[1][1]
             dy == polygon[2][2] - polygon[1][2]
         IN  Returns(MkBBox(SetMin(xs), SetMin(ys), SetMax(xs), SetMax(ys)),
                     IF dx # 0 \/ dy # 0 THEN Atan2Degrees(dy, dx) ELSE ZeroDegrees)

\* text.strip() is empty: the texts of a raw detection are "a", " " and "".
IsBlank(text) == text \in {"", " "}

\* ------------------------------------------------------------------ coordinate values
\* A coordinate is an exact fraction n/d in lowest terms, d > 0.
Rat(n, d) ==
    LET g == Gcd(AbsVal(n), d) IN [n |-> n \div g, d |-> d \div g]

RInt(k) == [n |-> k, d |-> 1]

RMul(a, b) == Rat(a.n * b.n, a.d * b.d)

\* a / b for b > 0.
RDiv(a, b) == Rat(a.n * b.d, a.d * b.n)

\* dpi: Optional[float] = None.
NoDpi == 0

\* The resolutions a caller passes.
Dpis == {72, 150}

PointsPerInch == 72

\* 1 / TOLERANCE of the unit consistency tests.
ToleranceInv == 100

Units == {"pixels", "points", "inches", "normalized"}

MkPageIn(width, height, texts) == [width |-> width, height |-> height, texts |-> texts]

MkBlock(text, bbox, rotation, confidence) ==
    [text |-> text, bbox |-> bbox, rotation |-> rotation, confidence |-> confidence]

\* pixels * 72 / dpi, inches * 72, normalized * the page dimension in points.
ToPoints(v, unit, dpi, dim_pts) ==
    CASE unit = "points" -> v
      [] unit = "pixels" -> RDiv(RMul(v, RInt(PointsPerInch)), RInt(dpi))
      [] unit = "inches" -> RMul(v, RInt(PointsPerInch))
      [] unit = "normalized" -> RMul(v, dim_pts)

\* points * dpi / 72, points / 72, points / the page dimension in points.
FromPoints(v, unit, dpi, dim_pts) ==
    CASE unit = "points" -> v
      [] unit = "pixels" -> RDiv(RMul(v, RInt(dpi)), RInt(PointsPerInch))
      [] unit = "inches" -> RDiv(v, RInt(PointsPerInch))
      [] unit = "normalized" -> RDiv(v, dim_pts)

\* dpi is mandatory whenever pixels is the source or the target unit.
DpiMissing(source_unit, target_unit, dpi, target_dpi) ==
    \/ source_unit = "pixels" /\ dpi = NoDpi
    \/ target_unit = "pixels" /\ target_dpi = NoDpi

\* The page dimension in points of a converter constructed with a page
\* dimension: a normalized source is constructed with the dimension in points.
PointsDim(source_unit, page_dim, dpi) ==
    IF source_unit = "normalized" THEN page_dim
    ELSE ToPoints(page_dim, source_unit, dpi, page_dim)

\* CoordinateConverter(source_unit, page_width, page_height, dpi)
\*     .convert_page(page, target_unit, target_dpi)
ConverterConvertPage(source_unit, page_width, page_height, dpi, page, target_unit, target_dpi) ==
    IF DpiMissing(source_unit, target_unit, dpi, target_dpi)
    THEN [kind |-> "raise", page |-> page]
    ELSE IF source_unit = target_unit THEN [kind |-> "page", page |-> page]
    ELSE LET wp == PointsDim(source_unit, page_width, dpi)
             hp == PointsDim(source_unit, page_height, dpi)
             X(v) == FromPoints(ToPoints(v, source_unit, dpi, wp), target_unit, target_dpi, wp)
             Y(v) == FromPoints(ToPoints(v, source_unit, dpi, hp), target_unit, target_dpi, hp)
             B(b) == MkBlock(b.text,
                             MkBBox(X(b.bbox.x0), Y(b.bbox.y0), X(b.bbox.x1), Y(b.bbox.y1)),
                             b.rotation, b.confidence)
         IN  [kind |-> "page",
              page |-> MkPageIn(X(page.width), Y(page.height),
                                [i \in 1..Len(page.texts) |-> B(page.texts[i])])]

\* Mutant: the shortcut for equal units is never taken.
SameUnitNever(source_unit, output_unit) == FALSE

\* BaseExtractor._convert_page: source_unit == self.output_unit.
SameUnit(source_unit, output_unit) == source_unit = output_unit

\* BaseExtractor._convert_page(page, source_unit, dpi) of an extractor with
\* the given output_unit.
ConvertPageOf(output_unit, page, source_unit, dpi) ==
    IF SameUnit(source_unit, output_unit) THEN [kind |-> "page", page |-> page]
    ELSE ConverterConvertPage(source_unit, page.width, page.height, dpi,
                              page, output_unit, dpi)

\* Mutant: the converter is always constructed with the page's own dimensions.
ConverterPageDimsOwn(source_unit, page, ref) == <<page.width, page.height>>

\* The dimensions a converter is constructed with: the reference dimensions in
\* points for a normalized page, the page's own dimensions otherwise.
ConverterPageDims(source_unit, page, ref) ==
    IF source_unit = "normalized" THEN ref ELSE <<page.width, page.height>>

\* The conversion of a page with a reference page size, at a fixed DPI.
ConvertWithReference(source_unit, page, ref, dpi, target_unit) ==
    IF source_unit = target_unit THEN [kind |-> "page", page |-> page]
    ELSE LET dims == ConverterPageDims(source_unit, page, ref)
         IN  ConverterConvertPage(source_unit, dims[1], dims[2], dpi, page, target_unit, dpi)

\* ExtractionResult(page=Page(page=page, width=0, height=0), success=False, error=str(e))
FailedExtraction == [kind |-> "failed_result", page |-> MkPageIn(RInt(0), RInt(0), <<>>)]

NoOutcome == [kind |-> "none", page |-> MkPageIn(RInt(0), RInt(0), <<>>)]

\* No conversion is called.
ConvertIdle ==
    /\ c_caller = "convert"
    /\ c_source = "points"
    /\ c_output = "points"
    /\ c_dpi = NoDpi
    /\ c_page = MkPageIn(RInt(0), RInt(0), <<>>)
    /\ c_ref = <<RInt(0), RInt(0)>>
    /\ c_pc = "idle"
    /\ c_out = NoOutcome
    /\ c_back = NoOutcome

\* ------------------------------------------------------------------ character values
\* BasicLineMerger.__init__: line_gap_threshold = 5.0
LineGapThreshold == 5

\* CharInfo(char, bbox, rotation, index); bbox is (x0, y0, x1, y1) in the text
\* layer's space, y upwards.
MkCharInfo(char, bbox, rotation, index) ==
    [char |-> char, bbox |-> bbox, rotation |-> rotation, index |-> index]

\* A text is the sequence of its characters.
IsSpace(ch) == ch = " "

RECURSIVE LStrip(_)
LStrip(t) == IF t # <<>> /\ IsSpace(Head(t)) THEN LStrip(Tail(t)) ELSE t

RECURSIVE RStrip(_)
RStrip(t) ==
    IF t # <<>> /\ IsSpace(t[Len(t)]) THEN RStrip(SubSeq(t, 1, Len(t) - 1)) ELSE t

\* str.strip()
Strip(t) == RStrip(LStrip(t))

\* Mutant: the joined text is not stripped.
JoinedTextUntrimmed(chars) == [k \in 1..Len(chars) |-> chars[k].char]

\* "".join(c.char for c in chars).strip()
JoinedText(chars) == Strip([k \in 1..Len(chars) |-> chars[k].char])

\* The fonts of a text page, by character index.
TextPageFonts == [name |-> "F", fonts |-> [k \in 0..MaxChars |-> [size |-> 10 + k]]]

\* CharacterMerger._extract_font_info(textpage, char_index)
ExtractFontInfo(textpage, char_index) ==
    IF textpage = NoneVal THEN NoneVal
    ELSE IF char_index \in DOMAIN textpage.fonts THEN textpage.fonts[char_index]
    ELSE NoneVal

\* Mutant: a gap equal to the threshold starts a new block.
IsNewBlockAtThreshold(prev, curr) ==
    IF prev = NoneVal THEN FALSE
    ELSE AbsVal(curr.bbox.y0 - prev.bbox.y0) >= LineGapThreshold

\* BasicLineMerger._is_new_block(prev, curr)
IsNewBlock(prev, curr) ==
    IF prev = NoneVal THEN FALSE
    ELSE AbsVal(curr.bbox.y0 - prev.bbox.y0) > LineGapThreshold

\* Mutant: the box of the first character of the run.
RunBBoxOfFirst(chars, page_height) ==
    MkBBox(chars[1].bbox.x0, page_height - chars[1].bbox.y1,
           chars[1].bbox.x1, page_height - chars[1].bbox.y0)

\* The bbox _create_text_block computes for a run of characters.
RunBBox(chars, page_height) ==
    LET x0 == SetMin({chars[k].bbox.x0 : k \in 1..Len(chars)})
        y0 == SetMin({chars[k].bbox.y0 : k \in 1..Len(chars)})
        x1 == SetMax({chars[k].bbox.x1 : k \in 1..Len(chars)})
        y1 == SetMax({chars[k].bbox.y1 : k \in 1..Len(chars)})
    IN  MkBBox(x0, page_height - y1, x1, page_height - y0)

MkFontBlock(text, bbox, rotation, font_info) ==
    [text |-> text, bbox |-> bbox, rotation |-> rotation, font_info |-> font_info]

\* BasicLineMerger._create_text_block(chars, textpage, page_height)
CreateTextBlock(chars, textpage, page_height) ==
    IF chars = <<>> THEN NoneVal
    ELSE LET text == JoinedText(chars) IN
         IF text = <<>> THEN NoneVal
         ELSE MkFontBlock(text, RunBBox(chars, page_height), chars[1].rotation,
                          ExtractFontInfo(textpage, chars[1].index))

\* The lists blocks and runs after current_chars (the characters at the
\* positions current) is finalized: the block is appended unless it is None or blank.
Finalize(acc, chars, current, textpage, page_height) ==
    IF current = <<>> THEN acc
    ELSE LET block == CreateTextBlock([k \in 1..Len(current) |-> chars[current[k]]],
                                      textpage, page_height)
             emit == block # NoneVal /\ Strip(block.text) # <<>>
         IN  [blocks |-> IF emit THEN Append(acc.blocks, block) ELSE acc.blocks,
              runs |-> Append(acc.runs, [members |-> current, emitted |-> emit])]

\* The loop of BasicLineMerger.merge from position i on, and the final flush.
RECURSIVE LineMergeFrom(_, _, _, _, _, _)
LineMergeFrom(chars, i, current, acc, textpage, page_height) ==
    IF i > Len(chars) THEN Finalize(acc, chars, current, textpage, page_height)
    ELSE LET prev == IF i = 1 THEN NoneVal ELSE chars[i - 1] IN
         IF IsNewBlock(prev, chars[i])
         THEN LineMergeFrom(chars, i + 1, <<i>>,
                            Finalize(acc, chars, current, textpage, page_height),
                            textpage, page_height)
         ELSE LineMergeFrom(chars, i + 1, Append(current, i), acc, textpage, page_height)

\* BasicLineMerger.merge(chars, textpage, page_height)
LineMergerMerge(chars, textpage, page_height) ==
    IF chars = <<>> THEN [blocks |-> <<>>, runs |-> <<>>]
    ELSE LineMergeFrom(chars, 1, <<>>, [blocks |-> <<>>, runs |-> <<>>],
                       textpage, page_height)

\* Mutant: a whitespace character gets no block.
KeepMergerSkipsBlank(chars, textpage, page_height) ==
    LET Keep(k) == ~IsSpace(chars[k].char)
        F[k \in 0..Len(chars)] ==
            IF k = 0 THEN <<>>
            ELSE IF Keep(k)
                 THEN Append(F[k - 1],
                             MkFontBlock(<<chars[k].char>>, RunBBoxOfFirst(<<chars[k]>>, page_height),
                                         chars[k].rotation,
                                         ExtractFontInfo(textpage, chars[k].index)))
                 ELSE F[k - 1]
    IN  [blocks |-> F[Len(chars)],
         runs |-> [k \in 1..Len(chars) |-> [members |-> <<k>>, emitted |-> Keep(k)]]]

\* KeepCharacterMerger.merge(chars, textpage, page_height)
KeepMergerMerge(chars, textpage, page_height) ==
    [blocks |-> [k \in 1..Len(chars) |->
                    MkFontBlock(<<chars[k].char>>,
                                MkBBox(chars[k].bbox.x0, page_height - chars[k].bbox.y1,
                                       chars[k].bbox.x1, page_height - chars[k].bbox.y0),
                                chars[k].rotation,
                                ExtractFontInfo(textpage, chars[k].index))],
     runs |-> [k \in 1..Len(chars) |-> [members |-> <<k>>, emitted |-> TRUE]]]

\* No merger is called.
MergeIdle ==
    /\ m_merger = "line"
    /\ m_chars = <<>>
    /\ m_textpage = NoneVal
    /\ m_page_height = 0
    /\ m_pc = "idle"
    /\ m_blocks = <<>>
    /\ m_runs = <<>>

\* ------------------------------------------------------------------ image extractor values
\* self._images[page]: a list index from -len to len - 1 selects an element
\* (a negative one counts from the end), any other raises IndexError.
ListIndex(images, page) ==
    IF 0 <= page /\ page < Len(images)
    THEN [kind |-> "item", item |-> images[page + 1], exc |-> "", msg |-> ""]
    ELSE IF -Len(images) <= page /\ page < 0
    THEN [kind |-> "item", item |-> images[Len(images) + page + 1], exc |-> "", msg |-> ""]
    ELSE [kind |-> "raise", item |-> 0, exc |-> "IndexError", msg |-> "list index out of range"]

\* Page(page=page, width=0, height=0, texts=[]): image 0 is no image.
EmptyPage(page) == [page |-> page, image |-> 0]

ImgResult(page, image, success, error) ==
    [kind |-> "result", page |-> [page |-> page, image |-> image],
     success |-> success, error |-> error]

\* The exceptions extract_page catches.
CaughtByExtractPage == {"IndexError", "UnidentifiedImageError", "OSError", "RuntimeError"}

\* ImageBasedExtractor.extract_page(page) on the images, when _do_ocr has the
\* outcome ocr: "ok", or the name of the exception it raises.
ImageExtractPage(images, page, ocr) ==
    IF page >= Len(images)
    THEN ImgResult(page, 0, FALSE, "Page out of range")
    ELSE LET img == ListIndex(images, page) IN
         IF img.kind = "raise" THEN ImgResult(page, 0, FALSE, img.msg)
         ELSE IF ocr = "ok" THEN ImgResult(page, img.item, TRUE, "")
         ELSE IF ocr \in CaughtByExtractPage THEN ImgResult(page, 0, FALSE, "ocr failed")
         ELSE [kind |-> "raise", exc |-> ocr]

\* Mutant: close() closes the images and keeps the list.
ImagesAfterCloseKept(images) == images

\* ImageBasedExtractor.close: self._images = []
ImagesAfterClose(images) == <<>>

NoCall == [op |-> "none"]

\* ------------------------------------------------------------------ reader cache values
\* The keys (tuple(languages), gpu) the callers use.
ReaderKeys == {"en", "it"}

Threads == 1..NumThreads

\* No get_reader call is made.
ReaderIdle ==
    /\ r_cache = [k \in ReaderKeys |-> 0]
    /\ r_pc = [t \in Threads |-> "off"]
    /\ r_key = [t \in Threads |-> "en"]
    /\ r_new = [t \in Threads |-> 0]
    /\ r_calls = [t \in Threads |-> 0]
    /\ r_made = [k \in ReaderKeys |-> {}]
    /\ r_returned = {}

\* ------------------------------------------------------------------ batch aggregate values
UsageKeys == {"prompt_tokens", "completion_tokens"}

\* A dict[str, int]: its keys and, for each key, its value (0 for the others).
MkDict(keys, val) == [keys |-> keys, val |-> [k \in UsageKeys |-> IF k \in keys THEN val[k] ELSE 0]]

EmptyDict == MkDict({}, [k \in UsageKeys |-> 0])

\* usage: dict[str, int] | None
NoUsage == [isNone |-> TRUE, dict |-> EmptyDict]

SomeUsage(d) == [isNone |-> FALSE, dict |-> d]

\* Mutant: the value replaces the total of the key.
DictAddOverwrite(total, key, value) ==
    MkDict(total.keys \cup {key}, [total.val EXCEPT ![key] = value])

\* total[key] = total.get(key, 0) + value
DictAdd(total, key, value) ==
    MkDict(total.keys \cup {key}, [total.val EXCEPT ![key] = @ + value])

\* for key, value in usage.items(): total[key] = total.get(key, 0) + value
RECURSIVE DictAddAll(_, _, _)
DictAddAll(total, d, keys) ==
    IF keys = {} THEN total
    ELSE LET k == CHOOSE x \in keys : TRUE
         IN  DictAddAll(DictAdd(total, k, d.val[k]), d, keys \ {k})

\* LLMBatchExtractionResult.total_usage, over the first n batch results.
RECURSIVE TotalUsage(_, _)
TotalUsage(rs, n) ==
    IF n = 0 THEN EmptyDict
    ELSE LET total == TotalUsage(rs, n - 1)
             usage == rs[n].usage
         IN  IF ~usage.isNone /\ usage.dict.keys # {}
             THEN DictAddAll(total, usage.dict, usage.dict.keys)
             ELSE total

\* LLMBatchExtractionResult.successful_batches
SuccessfulBatches(rs) == SelectSeq(rs, LAMBDA r : r.success)

\* LLMBatchExtractionResult.failed_batches
FailedBatches(rs) == SelectSeq(rs, LAMBDA r : ~r.success)

\* Mutant: the data of every batch result that has one.
AllDataOfAny(rs) ==
    LET kept == SelectSeq(rs, LAMBDA r : r.data # NoneVal)
    IN  [j \in 1..Len(kept) |-> kept[j].data]

\* LLMBatchExtractionResult.all_data
AllData(rs) ==
    LET kept == SelectSeq(rs, LAMBDA r : r.success /\ r.data # NoneVal)
    IN  [j \in 1..Len(kept) |-> kept[j].data]

\* No LLMBatchExtractionResult is read.
AggregateIdle ==
    /\ a_batch_results = <<>>
    /\ a_pc = "idle"
    /\ a_out = NoneVal

\* No image-based extractor is constructed.
ImageIdle ==
    /\ i_loaded = <<>>
    /\ i_images = <<>>
    /\ i_closed = {}
    /\ i_closes = 0
    /\ i_with = "idle"
    /\ i_last = NoCall

YIdle == ImageIdle /\ ReaderIdle /\ AggregateIdle

\* No converter is called.
GeomIdle ==
    /\ g_backend = "azure"
    /\ g_points = <<>>
    /\ g_extra = FALSE
    /\ g_text = ""
    /\ g_pc = "idle"
    /\ g_out = NoneVal
    /\ g_blocks = <<>>

OthersIdle == GeomIdle /\ ConvertIdle /\ MergeIdle /\ YIdle

\* ------------------------------------------------------------------ Init
Init ==
    /\ api \in {"sync", "async"}
    /\ executor \in (IF api = "sync" THEN {"thread", "process"} ELSE {"thread"})
    /\ pages \in {NoPages} \cup {SomePages(s) : s \in SeqsUpTo(PageNumbers, MaxLen)}
    /\ max_workers \in 0..MaxWorkers
    /\ raising \in SUBSET (0..NumPages - 1)
    /\ pc = "start"
    /\ pages_list = <<>>
    /\ fut = <<>>
    /\ cur = 0
    /\ results = <<>>
    /\ raw_results = <<>>
    /\ document = NoneVal
    /\ trace = <<>>
    /\ subs = <<>>
    /\ writes = <<>>
    /\ ran_on = {}
    /\ wrote_on = {}
    /\ BatchIdle
    /\ OthersIdle

\* ------------------------------------------------------------------ extract_pages
\* base.py 78-90: the entry of extract_pages.
Start ==
    /\ pc = "start"
    /\ api = "sync"
    /\ LET plist == PagesList(pages) IN
       /\ pages_list' = plist
       /\ IF IsSequential(max_workers, plist)
          THEN /\ pc' = "seq"
               /\ results' = <<>>
          ELSE /\ pc' = "submit"
               /\ results' = [i \in 1..Len(plist) |-> NoneVal]
    /\ subs' = NoCalls(Len(PagesList(pages)))
    /\ writes' = NoCalls(Len(PagesList(pages)))
    /\ UNCHANGED <<trace, ran_on, wrote_on>>
    /\ UNCHANGED <<bvars, xvars>>
    /\ UNCHANGED <<api, executor, pages, max_workers, raising, fut, cur, raw_results, document>>

\* base.py 84: the list comprehension calls extract_page for the next page.
SeqCall ==
    /\ pc = "seq"
    /\ cur = 0
    /\ Len(results) < Len(pages_list)
    /\ cur' = Len(results) + 1
    /\ trace' = Append(trace, <<"call", Len(results) + 1>>)
    /\ ran_on' = ran_on \cup {"caller"}
    /\ UNCHANGED <<subs, writes, wrote_on>>
    /\ UNCHANGED <<bvars, xvars>>
    /\ UNCHANGED <<api, executor, pages, max_workers, raising, pc, pages_list, fut,
                   results, raw_results, document>>

\* base.py 84: the call returns, or raises out of extract_pages.
SeqReturn ==
    /\ pc = "seq"
    /\ cur # 0
    /\ LET o == ExtractPage(pages_list[cur]) IN
       IF o.kind = "return"
       THEN /\ results' = Append(results, o.value)
            /\ pc' = "seq"
       ELSE /\ results' = results
            /\ pc' = "raised"
    /\ cur' = 0
    /\ trace' = Append(trace, <<"end", cur>>)
    /\ UNCHANGED <<subs, writes, ran_on, wrote_on>>
    /\ UNCHANGED <<bvars, xvars>>
    /\ UNCHANGED <<api, executor, pages, max_workers, raising, pages_list, fut,
                   raw_results, document>>

\* base.py 84: the list is complete and is returned.
SeqDone ==
    /\ pc = "seq"
    /\ cur = 0
    /\ Len(results) = Len(pages_list)
    /\ pc' = "returned"
    /\ UNCHANGED hvars
    /\ UNCHANGED <<bvars, xvars>>
    /\ UNCHANGED <<api, executor, pages, max_workers, raising, pages_list, fut, cur,
                   results, raw_results, document>>

\* base.py 92: pool.submit(self.extract_page, p) for the next request position.
Submit ==
    /\ pc = "submit"
    /\ api = "sync"
    /\ Len(fut) < Len(pages_list)
    /\ fut' = Append(fut, "queued")
    /\ subs' = CountCall(subs, Len(fut) + 1)
    /\ UNCHANGED <<trace, writes, ran_on, wrote_on>>
    /\ UNCHANGED <<bvars, xvars>>
    /\ UNCHANGED <<api, executor, pages, max_workers, raising, pc, pages_list, cur,
                   results, raw_results, document>>

\* base.py 92-93: every position is submitted; as_completed starts.
SubmitDone ==
    /\ pc = "submit"
    /\ api = "sync"
    /\ Len(fut) = Len(pages_list)
    /\ pc' = "collect"
    /\ UNCHANGED hvars
    /\ UNCHANGED <<bvars, xvars>>
    /\ UNCHANGED <<api, executor, pages, max_workers, raising, pages_list, fut, cur,
                   results, raw_results, document>>

\* The pool (base.py 91, 161): an idle worker takes the oldest queued call.
WorkerStart(i) ==
    /\ pc \in {"submit", "collect", "asubmit", "gather"}
    /\ i \in DOMAIN fut
    /\ fut[i] = "queued"
    /\ \A j \in 1..(i - 1) : fut[j] # "queued"
    /\ PoolHasIdleWorker(max_workers, Running)
    /\ fut' = [fut EXCEPT ![i] = "running"]
    /\ ran_on' = ran_on \cup {"pool"}
    /\ UNCHANGED <<trace, subs, writes, wrote_on>>
    /\ UNCHANGED <<bvars, xvars>>
    /\ UNCHANGED <<api, executor, pages, max_workers, raising, pc, pages_list, cur,
                   results, raw_results, document>>

\* The pool: a worker's extract_page call ends and its future is resolved.
WorkerFinish(i) ==
    /\ pc \in {"submit", "collect", "asubmit", "gather", "shutdown"}
    /\ i \in DOMAIN fut
    /\ fut[i] = "running"
    /\ fut' = [fut EXCEPT ![i] = "finished"]
    /\ UNCHANGED hvars
    /\ UNCHANGED <<bvars, xvars>>
    /\ UNCHANGED <<api, executor, pages, max_workers, raising, pc, pages_list, cur,
                   results, raw_results, document>>

\* base.py 93-102: as_completed yields a finished future; its slot is written.
Collect(i) ==
    /\ pc = "collect"
    /\ i \in DOMAIN fut
    /\ fut[i] = "finished"
    /\ LET o == ExtractPage(pages_list[i]) IN
       results' = StoreResult(results, i,
                      IF o.kind = "return" THEN o.value
                      ELSE FailedResult(pages_list, i, o.msg))
    /\ fut' = [fut EXCEPT ![i] = "collected"]
    /\ writes' = CountCall(writes, i)
    /\ wrote_on' = wrote_on \cup {"caller"}
    /\ UNCHANGED <<trace, subs, ran_on>>
    /\ UNCHANGED <<bvars, xvars>>
    /\ UNCHANGED <<api, executor, pages, max_workers, raising, pc, pages_list, cur,
                   raw_results, document>>

\* Mutant: extract_pages returns after the first collected future and leaves
\* the pool without waiting for its workers.
CollectDoneEarly ==
    /\ pc = "collect"
    /\ \E i \in DOMAIN fut : fut[i] = "collected"
    /\ pc' = "returned"
    /\ UNCHANGED hvars
    /\ UNCHANGED <<bvars, xvars>>
    /\ UNCHANGED <<api, executor, pages, max_workers, raising, pages_list, fut, cur,
                   results, raw_results, document>>

\* base.py 91, 103: the loop is over, the pool is shut down, results is returned.
CollectDone ==
    /\ pc = "collect"
    /\ \A i \in DOMAIN fut : fut[i] = "collected"
    /\ pc' = "returned"
    /\ UNCHANGED hvars
    /\ UNCHANGED <<bvars, xvars>>
    /\ UNCHANGED <<api, executor, pages, max_workers, raising, pages_list, fut, cur,
                   results, raw_results, document>>

\* ------------------------------------------------------------------ extract_pages_async
\* base.py 146-153, 161: the entry of extract_pages_async.
AsyncStart ==
    /\ pc = "start"
    /\ api = "async"
    /\ LET plist == PagesList(pages) IN
       /\ pages_list' = plist
       /\ IF IsSequential(max_workers, plist)
          THEN /\ pc' = "aseq"
               /\ raw_results' = <<>>
          ELSE /\ pc' = "asubmit"
               /\ raw_results' = [i \in 1..Len(plist) |-> NoneVal]
    /\ results' = <<>>
    /\ subs' = NoCalls(Len(PagesList(pages)))
    /\ writes' = NoCalls(Len(PagesList(pages)))
    /\ UNCHANGED <<trace, ran_on, wrote_on>>
    /\ UNCHANGED <<bvars, xvars>>
    /\ UNCHANGED <<api, executor, pages, max_workers, raising, fut, cur, document>>

\* base.py 155-156: run_in_executor(None, self.extract_page, n) is awaited.
AsyncSeqCall ==
    /\ pc = "aseq"
    /\ cur = 0
    /\ Len(results) < Len(pages_list)
    /\ cur' = Len(results) + 1
    /\ trace' = Append(trace, <<"call", Len(results) + 1>>)
    /\ ran_on' = ran_on \cup {"default_executor"}
    /\ UNCHANGED <<subs, writes, wrote_on>>
    /\ UNCHANGED <<bvars, xvars>>
    /\ UNCHANGED <<api, executor, pages, max_workers, raising, pc, pages_list, fut,
                   results, raw_results, document>>

\* base.py 156-157: the awaited call returns and is appended, or the await raises
\* out of the coroutine.
AsyncSeqReturn ==
    /\ pc = "aseq"
    /\ cur # 0
    /\ LET o == ExtractPage(pages_list[cur]) IN
       IF o.kind = "return"
       THEN /\ results' = Append(results, o.value)
            /\ pc' = "aseq"
       ELSE /\ results' = results
            /\ pc' = "raised"
    /\ cur' = 0
    /\ trace' = Append(trace, <<"end", cur>>)
    /\ UNCHANGED <<subs, writes, ran_on, wrote_on>>
    /\ UNCHANGED <<bvars, xvars>>
    /\ UNCHANGED <<api, executor, pages, max_workers, raising, pages_list, fut,
                   raw_results, document>>

\* base.py 158: return results.
AsyncSeqDone ==
    /\ pc = "aseq"
    /\ cur = 0
    /\ Len(results) = Len(pages_list)
    /\ pc' = "returned"
    /\ UNCHANGED hvars
    /\ UNCHANGED <<bvars, xvars>>
    /\ UNCHANGED <<api, executor, pages, max_workers, raising, pages_list, fut, cur,
                   results, raw_results, document>>

\* base.py 162: loop.run_in_executor(pool, self.extract_page, p) for the next position.
AsyncSubmit ==
    /\ pc = "asubmit"
    /\ Len(fut) < Len(pages_list)
    /\ fut' = Append(fut, "queued")
    /\ subs' = CountCall(subs, Len(fut) + 1)
    /\ UNCHANGED <<trace, writes, ran_on, wrote_on>>
    /\ UNCHANGED <<bvars, xvars>>
    /\ UNCHANGED <<api, executor, pages, max_workers, raising, pc, pages_list, cur,
                   results, raw_results, document>>

\* base.py 162-163: every task is created; gather is awaited.
AsyncSubmitDone ==
    /\ pc = "asubmit"
    /\ Len(fut) = Len(pages_list)
    /\ pc' = "gather"
    /\ UNCHANGED hvars
    /\ UNCHANGED <<bvars, xvars>>
    /\ UNCHANGED <<api, executor, pages, max_workers, raising, pages_list, fut, cur,
                   results, raw_results, document>>

\* base.py 163: gather(*tasks, return_exceptions=True) takes the outcome of a
\* finished task, the returned value or the exception, at the task's position.
GatherTask(i) ==
    /\ pc = "gather"
    /\ i \in DOMAIN fut
    /\ fut[i] = "finished"
    /\ raw_results' = GatherStore(raw_results, i, ExtractPage(pages_list[i]))
    /\ fut' = [fut EXCEPT ![i] = "collected"]
    /\ UNCHANGED hvars
    /\ UNCHANGED <<bvars, xvars>>
    /\ UNCHANGED <<api, executor, pages, max_workers, raising, pc, pages_list, cur,
                   results, document>>

\* base.py 161-178: gather returns, the pool is shut down, and the loop turns
\* every exception into a failed ExtractionResult.
GatherDone ==
    /\ pc = "gather"
    /\ \A i \in DOMAIN fut : fut[i] = "collected"
    /\ results' = ConvertRaw(raw_results, pages_list)
    /\ pc' = "returned"
    /\ UNCHANGED hvars
    /\ UNCHANGED <<bvars, xvars>>
    /\ UNCHANGED <<api, executor, pages, max_workers, raising, pages_list, fut, cur,
                   raw_results, document>>

\* What cancelling the gather leaves of the tasks: a call that is still queued
\* is cancelled and never runs, a call that a worker is running goes on.
CancelQueued(f) == [i \in DOMAIN f |-> IF f[i] = "queued" THEN "cancelled" ELSE f[i]]

\* base.py 161-163: the coroutine is cancelled while it awaits the gather
\* (task.cancel(), or the timeout of asyncio.wait_for). CancelledError is raised
\* at the await inside the with-block, whose exit calls pool.shutdown(wait=True)
\* on the thread of the event loop.
AsyncCancel ==
    /\ pc = "gather"
    /\ \E i \in DOMAIN fut : fut[i] # "collected"
    /\ fut' = CancelQueued(fut)
    /\ pc' = "shutdown"
    /\ UNCHANGED hvars
    /\ UNCHANGED <<bvars, xvars>>
    /\ UNCHANGED <<api, executor, pages, max_workers, raising, pages_list, cur,
                   results, raw_results, document>>

\* base.py 161: shutdown(wait=True) returns when no worker is running a call;
\* CancelledError leaves the coroutine.
ShutdownDone ==
    /\ pc = "shutdown"
    /\ Running = {}
    /\ pc' = "cancelled"
    /\ UNCHANGED hvars
    /\ UNCHANGED <<bvars, xvars>>
    /\ UNCHANGED <<api, executor, pages, max_workers, raising, pages_list, fut, cur,
                   results, raw_results, document>>

\* ------------------------------------------------------------------ extract, extract_async
\* base.py 122-125: extract assembles the Document from the results.
Extract ==
    /\ pc = "returned"
    /\ api = "sync"
    /\ document' = ExtractedPages(results)
    /\ pc' = "done"
    /\ UNCHANGED hvars
    /\ UNCHANGED <<bvars, xvars>>
    /\ UNCHANGED <<api, executor, pages, max_workers, raising, pages_list, fut, cur,
                   results, raw_results>>

\* base.py 195-198: extract_async assembles the Document from the results.
ExtractAsync ==
    /\ pc = "returned"
    /\ api = "async"
    /\ document' = ExtractedPages(results)
    /\ pc' = "done"
    /\ UNCHANGED hvars
    /\ UNCHANGED <<bvars, xvars>>
    /\ UNCHANGED <<api, executor, pages, max_workers, raising, pages_list, fut, cur,
                   results, raw_results>>

Next ==
    \/ Start
    \/ SeqCall
    \/ SeqReturn
    \/ SeqDone
    \/ Submit
    \/ SubmitDone
    \/ \E i \in 1..MaxLen + 1 : WorkerStart(i)
    \/ \E i \in 1..MaxLen + 1 : WorkerFinish(i)
    \/ \E i \in 1..MaxLen + 1 : Collect(i)
    \/ CollectDone
    \/ AsyncStart
    \/ AsyncSeqCall
    \/ AsyncSeqReturn
    \/ AsyncSeqDone
    \/ AsyncSubmit
    \/ AsyncSubmitDone
    \/ \E i \in 1..MaxLen + 1 : GatherTask(i)
    \/ GatherDone
    \/ Extract
    \/ ExtractAsync

Spec == Init /\ [][Next]_vars

\* ------------------------------------------------------------------ extract_pages_async in a cancelling event loop
\* extract_pages_async or extract_async is awaited by a task of an event loop.
AsyncInit ==
    /\ Init
    /\ api = "async"

\* The coroutine runs as in Spec, and the event loop may cancel it.
AsyncNext ==
    \/ AsyncStart
    \/ AsyncSeqCall
    \/ AsyncSeqReturn
    \/ AsyncSeqDone
    \/ AsyncSubmit
    \/ AsyncSubmitDone
    \/ \E i \in 1..MaxLen + 1 : WorkerStart(i)
    \/ \E i \in 1..MaxLen + 1 : WorkerFinish(i)
    \/ \E i \in 1..MaxLen + 1 : GatherTask(i)
    \/ GatherDone
    \/ AsyncCancel
    \/ ShutdownDone
    \/ ExtractAsync

SpecAsync == AsyncInit /\ [][AsyncNext]_vars

\* ------------------------------------------------------------------ extract_pages with a pool
\* The pages a call with a pool asks for: two pages tell the positions of a
\* request apart and let one call raise while another returns.
PoolPageNumbers == {0, 1}

\* The request asks for pages of PoolPageNumbers only.
PoolRequest(pgs) == pgs.isNone \/ \A i \in 1..Len(pgs.list) : pgs.list[i] \in PoolPageNumbers

\* extract_pages is called with max_workers > 1.
PoolInit ==
    /\ Init
    /\ api = "sync"
    /\ max_workers > 1
    /\ PoolRequest(pages)
    /\ raising \subseteq PoolPageNumbers

\* The steps of the caller's thread.
CallerStep ==
    \/ Start
    \/ SeqCall
    \/ SeqReturn
    \/ SeqDone
    \/ Submit
    \/ SubmitDone
    \/ \E i \in 1..MaxLen + 1 : Collect(i)
    \/ CollectDone

\* The steps of the pool's workers.
PoolStep ==
    \/ \E i \in 1..MaxLen + 1 : WorkerStart(i)
    \/ \E i \in 1..MaxLen + 1 : WorkerFinish(i)

PoolNext ==
    \/ CallerStep
    \/ PoolStep

\* The caller's thread keeps running, every extract_page call ends, and an idle
\* worker of the pool takes a queued call.
SpecLive == PoolInit /\ [][PoolNext]_vars /\ WF_vars(CallerStep) /\ WF_vars(PoolStep)

\* ------------------------------------------------------------------ extract_structured_parallel
BInit ==
    /\ ExtractorIdle
    /\ OthersIdle
    /\ b_pages \in {NoPages} \cup {SomePages(sq) : sq \in SeqsUpTo(PageNumbers, MaxLen)}
    /\ pages_per_batch \in 1..MaxPerBatch
    /\ b_max_workers \in 0..MaxWorkers
    /\ b_executor \in {"thread", "process"}
    /\ b_failing \in SUBSET (0..NumPages - 1)
    /\ b_pc = "start"
    /\ batches = <<>>
    /\ b_fut = <<>>
    /\ batch_results = <<>>
    /\ b_subs = <<>>
    /\ b_writes = <<>>
    /\ b_wrote_on = {}

\* llm_factory.py 453-468, 494-496: pages default to every page of the document,
\* the batches are cut, and the sequential or the parallel path is taken.
BStart ==
    /\ b_pc = "start"
    /\ LET bs == BatchPages(PagesList(b_pages), pages_per_batch) IN
       /\ batches' = bs
       /\ IF IsSequential(b_max_workers, bs)
          THEN /\ b_pc' = "seq"
               /\ batch_results' = <<>>
          ELSE /\ b_pc' = "submit"
               /\ batch_results' = [i \in 1..Len(bs) |-> NoneVal]
    /\ b_subs' = NoCalls(Len(BatchPages(PagesList(b_pages), pages_per_batch)))
    /\ b_writes' = NoCalls(Len(BatchPages(PagesList(b_pages), pages_per_batch)))
    /\ UNCHANGED b_wrote_on
    /\ UNCHANGED <<ovars, xvars>>
    /\ UNCHANGED <<b_pages, pages_per_batch, b_max_workers, b_executor, b_failing, b_fut>>

\* llm_factory.py 470-486: the loop extracts the next batch and appends its result.
BSeqStep ==
    /\ b_pc = "seq"
    /\ Len(batch_results) < Len(batches)
    /\ batch_results' = Append(batch_results, ExtractBatch(batches[Len(batch_results) + 1]))
    /\ UNCHANGED bhvars
    /\ UNCHANGED <<ovars, xvars>>
    /\ UNCHANGED <<b_pages, pages_per_batch, b_max_workers, b_executor, b_failing, b_pc,
                   batches, b_fut>>

\* llm_factory.py 487-491: the sequential path returns.
BSeqDone ==
    /\ b_pc = "seq"
    /\ Len(batch_results) = Len(batches)
    /\ b_pc' = "returned"
    /\ UNCHANGED bhvars
    /\ UNCHANGED <<ovars, xvars>>
    /\ UNCHANGED <<b_pages, pages_per_batch, b_max_workers, b_executor, b_failing,
                   batches, b_fut, batch_results>>

\* llm_factory.py 498-516: pool.submit(_extract_batch, ..., batch, ...) for the next batch.
BSubmit ==
    /\ b_pc = "submit"
    /\ Len(b_fut) < Len(batches)
    /\ b_fut' = Append(b_fut, "queued")
    /\ b_subs' = CountCall(b_subs, Len(b_fut) + 1)
    /\ UNCHANGED <<b_writes, b_wrote_on>>
    /\ UNCHANGED <<ovars, xvars>>
    /\ UNCHANGED <<b_pages, pages_per_batch, b_max_workers, b_executor, b_failing, b_pc,
                   batches, batch_results>>

\* llm_factory.py 516-517: every batch is submitted; as_completed starts.
BSubmitDone ==
    /\ b_pc = "submit"
    /\ Len(b_fut) = Len(batches)
    /\ b_pc' = "collect"
    /\ UNCHANGED bhvars
    /\ UNCHANGED <<ovars, xvars>>
    /\ UNCHANGED <<b_pages, pages_per_batch, b_max_workers, b_executor, b_failing,
                   batches, b_fut, batch_results>>

\* The pool (llm_factory.py 497): an idle worker takes the oldest queued call.
BWorkerStart(i) ==
    /\ b_pc \in {"submit", "collect"}
    /\ i \in DOMAIN b_fut
    /\ b_fut[i] = "queued"
    /\ \A j \in 1..(i - 1) : b_fut[j] # "queued"
    /\ PoolHasIdleWorker(b_max_workers, BRunning)
    /\ b_fut' = [b_fut EXCEPT ![i] = "running"]
    /\ UNCHANGED bhvars
    /\ UNCHANGED <<ovars, xvars>>
    /\ UNCHANGED <<b_pages, pages_per_batch, b_max_workers, b_executor, b_failing, b_pc,
                   batches, batch_results>>

\* The pool: a worker's _extract_batch call ends and its future is resolved.
BWorkerFinish(i) ==
    /\ b_pc \in {"submit", "collect"}
    /\ i \in DOMAIN b_fut
    /\ b_fut[i] = "running"
    /\ b_fut' = [b_fut EXCEPT ![i] = "finished"]
    /\ UNCHANGED bhvars
    /\ UNCHANGED <<ovars, xvars>>
    /\ UNCHANGED <<b_pages, pages_per_batch, b_max_workers, b_executor, b_failing, b_pc,
                   batches, batch_results>>

\* llm_factory.py 517-529: as_completed yields a finished future; its slot is
\* written with what future.result() gives, or with a failed batch result when
\* future.result() raises.
BCollect(i) ==
    /\ b_pc = "collect"
    /\ i \in DOMAIN b_fut
    /\ b_fut[i] = "finished"
    /\ LET o == FutureResult(batches[i]) IN
       batch_results' = StoreBatch(batch_results, i,
                            IF o.kind = "return" THEN o.value
                            ELSE FailedBatch(batches[i], o.msg))
    /\ b_fut' = [b_fut EXCEPT ![i] = "collected"]
    /\ b_writes' = CountCall(b_writes, i)
    /\ b_wrote_on' = b_wrote_on \cup {"caller"}
    /\ UNCHANGED b_subs
    /\ UNCHANGED <<ovars, xvars>>
    /\ UNCHANGED <<b_pages, pages_per_batch, b_max_workers, b_executor, b_failing, b_pc,
                   batches>>

\* llm_factory.py 497, 531-535: the loop is over, the pool is shut down, the
\* result is returned.
BCollectDone ==
    /\ b_pc = "collect"
    /\ \A i \in DOMAIN b_fut : b_fut[i] = "collected"
    /\ b_pc' = "returned"
    /\ UNCHANGED bhvars
    /\ UNCHANGED <<ovars, xvars>>
    /\ UNCHANGED <<b_pages, pages_per_batch, b_max_workers, b_executor, b_failing,
                   batches, b_fut, batch_results>>

BNext ==
    \/ BStart
    \/ BSeqStep
    \/ BSeqDone
    \/ BSubmit
    \/ BSubmitDone
    \/ \E i \in 1..MaxLen + 1 : BWorkerStart(i)
    \/ \E i \in 1..MaxLen + 1 : BWorkerFinish(i)
    \/ \E i \in 1..MaxLen + 1 : BCollect(i)
    \/ BCollectDone

SpecBatch == BInit /\ [][BNext]_vars

\* ------------------------------------------------------------------ both orchestrators with a pool
\* extract_pages or extract_structured_parallel is called with max_workers > 1.
PoolsInit ==
    \/ PoolInit
    \/ /\ BInit
       /\ b_max_workers > 1
       /\ PoolRequest(b_pages)
       /\ b_failing \subseteq PoolPageNumbers

PoolsNext ==
    \/ PoolNext
    \/ BNext

SpecPools == PoolsInit /\ [][PoolsNext]_vars

\* ------------------------------------------------------------------ result converters
Corners == (0..MaxCoord) \X (0..MaxCoord)

\* The horizontal rectangle of the conversion tests.
TestRectangle == << <<10, 10>>, <<110, 10>>, <<110, 30>>, <<10, 30>> >>

GInit ==
    /\ ExtractorIdle
    /\ BatchIdle
    /\ ConvertIdle
    /\ MergeIdle
    /\ YIdle
    /\ g_backend \in {"azure", "easyocr", "paddle"}
    /\ g_points \in SeqsUpTo(Corners, 4) \cup {TestRectangle}
    /\ g_extra \in (IF g_backend = "azure" THEN BOOLEAN ELSE {FALSE})
    /\ g_text \in {"a", " ", ""} \cup (IF g_backend = "azure" THEN {"None"} ELSE {})
    /\ g_pc = "start"
    /\ g_out = NoneVal
    /\ g_blocks = <<>>

\* adapters/azure_di.py 76-99: _convert_page_to_blocks for a page with one word;
\* a word without content is skipped.
AzureConvertPageToBlocks ==
    /\ g_pc = "start"
    /\ g_backend = "azure"
    /\ IF g_text = "None"
       THEN /\ g_out' = NoneVal
            /\ g_blocks' = <<>>
       ELSE LET o == AzurePolygonToBBoxAndRotation(FlatPolygon(g_points, g_extra)) IN
            /\ g_out' = o
            /\ g_blocks' = <<MkTextBlock(g_text, o.bbox, o.rotation)>>
    /\ g_pc' = "done"
    /\ UNCHANGED <<ovars, bvars, cvars, mvars, yvars>>
    /\ UNCHANGED <<g_backend, g_points, g_extra, g_text>>

\* extractors/easy_ocr.py 115-128: _convert_results for one raw result.
EasyOcrConvertResults ==
    /\ g_pc = "start"
    /\ g_backend = "easyocr"
    /\ LET o == EasyOcrPolygonToBBoxAndRotation(g_points) IN
       /\ g_out' = o
       /\ IF o.kind = "raise"
          THEN /\ g_blocks' = <<>>
               /\ g_pc' = "raised"
          ELSE /\ g_blocks' = <<MkTextBlock(g_text, o.bbox, o.rotation)>>
               /\ g_pc' = "done"
    /\ UNCHANGED <<ovars, bvars, cvars, mvars, yvars>>
    /\ UNCHANGED <<g_backend, g_points, g_extra, g_text>>

\* extractors/paddle_ocr.py 125-156: _convert_results for one raw item; an item
\* whose text is empty or blank is skipped before its polygon is looked at.
PaddleConvertResults ==
    /\ g_pc = "start"
    /\ g_backend = "paddle"
    /\ IF IsBlank(g_text)
       THEN /\ g_out' = NoneVal
            /\ g_blocks' = <<>>
            /\ g_pc' = "done"
       ELSE LET o == PaddlePolygonToBBoxAndRotation(g_points) IN
            /\ g_out' = o
            /\ IF o.kind = "raise"
               THEN /\ g_blocks' = <<>>
                    /\ g_pc' = "raised"
               ELSE /\ g_blocks' = <<MkTextBlock(g_text, o.bbox, o.rotation)>>
                    /\ g_pc' = "done"
    /\ UNCHANGED <<ovars, bvars, cvars, mvars, yvars>>
    /\ UNCHANGED <<g_backend, g_points, g_extra, g_text>>

GNext ==
    \/ AzureConvertPageToBlocks
    \/ EasyOcrConvertResults
    \/ PaddleConvertResults

SpecGeom == GInit /\ [][GNext]_vars

\* ------------------------------------------------------------------ coordinate conversion
\* The page of width w and height h with one block, in the given unit; a
\* normalized page is 1 x 1 and its coordinates are fractions of w and h.
PageInUnit(unit, w, h, x0, y0, x1, y1) ==
    IF unit = "normalized"
    THEN MkPageIn(RInt(1), RInt(1),
                  <<MkBlock("a", MkBBox(Rat(x0, w), Rat(y0, h), Rat(x1, w), Rat(y1, h)),
                            ZeroDegrees, NoneVal)>>)
    ELSE MkPageIn(RInt(w), RInt(h),
                  <<MkBlock("a", MkBBox(RInt(x0), RInt(y0), RInt(x1), RInt(y1)),
                            ZeroDegrees, NoneVal)>>)

\* The size in points of the page of width w and height h in the given unit.
ReferenceSize(unit, w, h, dpi) ==
    IF unit = "normalized" \/ (unit = "pixels" /\ dpi = NoDpi)
    THEN <<RInt(w), RInt(h)>>
    ELSE <<ToPoints(RInt(w), unit, dpi, RInt(w)), ToPoints(RInt(h), unit, dpi, RInt(h))>>

CInit ==
    /\ ExtractorIdle
    /\ BatchIdle
    /\ GeomIdle
    /\ MergeIdle
    /\ YIdle
    /\ c_caller \in {"convert", "pdf"}
    /\ c_source \in (IF c_caller = "pdf" THEN {"points"} ELSE Units)
    /\ c_output \in Units
    /\ c_dpi \in (IF c_caller = "pdf" THEN {NoDpi} ELSE {NoDpi} \cup Dpis)
    /\ \E w, h \in 1..MaxDim :
         \E x0, x1 \in 0..w, y0, y1 \in 0..h :
            /\ x0 <= x1
            /\ y0 <= y1
            /\ c_page = PageInUnit(c_source, w, h, x0, y0, x1, y1)
            /\ c_ref = ReferenceSize(c_source, w, h, c_dpi)
    /\ c_pc = "start"
    /\ c_out = NoOutcome
    /\ c_back = NoOutcome

\* extractors/base.py 204-230: _convert_page(page, source_unit, dpi).
ConvertPage ==
    /\ c_pc = "start"
    /\ c_caller = "convert"
    /\ LET r == ConvertPageOf(c_output, c_page, c_source, c_dpi) IN
       /\ c_out' = r
       /\ c_pc' = IF r.kind = "raise" THEN "raised" ELSE "converted"
    /\ UNCHANGED <<ovars, bvars, gvars, mvars, yvars>>
    /\ UNCHANGED <<c_caller, c_source, c_output, c_dpi, c_page, c_ref, c_back>>

\* _convert_page called once more on the page it returned, in the unit the
\* page already has.
ConvertPageAgain ==
    /\ c_pc = "converted"
    /\ c_source = c_output
    /\ LET r == ConvertPageOf(c_output, c_out.page, c_output, c_dpi) IN
       /\ c_out' = r
       /\ c_pc' = IF r.kind = "raise" THEN "raised" ELSE "again"
    /\ UNCHANGED <<ovars, bvars, gvars, mvars, yvars>>
    /\ UNCHANGED <<c_caller, c_source, c_output, c_dpi, c_page, c_ref, c_back>>

\* The converted page is converted back to the source unit, with the page size
\* in points as the reference of a normalized page.
ConvertBack ==
    /\ c_pc = "converted"
    /\ c_source # c_output
    /\ c_back' = ConvertWithReference(c_output, c_out.page, c_ref, c_dpi, c_source)
    /\ c_pc' = "back"
    /\ UNCHANGED <<ovars, bvars, gvars, mvars, yvars>>
    /\ UNCHANGED <<c_caller, c_source, c_output, c_dpi, c_page, c_ref, c_out>>

\* extractors/pdf.py 38-58: extract_page builds the page in points and calls
\* _convert_page(result_page, CoordinateUnit.POINTS) inside try / except Exception.
PdfExtractPage ==
    /\ c_pc = "start"
    /\ c_caller = "pdf"
    /\ LET r == ConvertPageOf(c_output, c_page, "points", NoDpi) IN
       c_out' = IF r.kind = "raise" THEN FailedExtraction
                ELSE [kind |-> "result", page |-> r.page]
    /\ c_pc' = "extracted"
    /\ UNCHANGED <<ovars, bvars, gvars, mvars, yvars>>
    /\ UNCHANGED <<c_caller, c_source, c_output, c_dpi, c_page, c_ref, c_back>>

CNext ==
    \/ ConvertPage
    \/ ConvertPageAgain
    \/ ConvertBack
    \/ PdfExtractPage

SpecConvert == CInit /\ [][CNext]_vars

\* ------------------------------------------------------------------ character mergers
\* The characters a text page has at one position: a letter or a space, on one
\* of three lines whose y0 differ by the threshold and by more than it, small
\* and upright or tall and rotated.
Letters == <<"a", "b", "c", "d">>

Glyphs == {"letter", "space"} \X {0, LineGapThreshold, 2 * LineGapThreshold + 1} \X {1, 2}

CharAt(i, g) ==
    MkCharInfo(IF g[1] = "space" THEN " " ELSE Letters[((i - 1) % Len(Letters)) + 1],
               IF g[3] = 1 THEN MkBBox(1, g[2], 2, g[2] + 1)
               ELSE MkBBox(0, g[2], 3, g[2] + LineGapThreshold + 2),
               IF g[3] = 1 THEN 0 ELSE 90,
               i - 1)

MInit ==
    /\ ExtractorIdle
    /\ BatchIdle
    /\ GeomIdle
    /\ ConvertIdle
    /\ YIdle
    /\ m_merger \in {"line", "keep"}
    /\ \E gs \in SeqsUpTo(Glyphs, MaxChars) :
          m_chars = [i \in 1..Len(gs) |-> CharAt(i, gs[i])]
    /\ m_textpage \in {NoneVal, TextPageFonts}
    /\ m_page_height = PageHeight
    /\ m_pc = "start"
    /\ m_blocks = <<>>
    /\ m_runs = <<>>

\* extractors/character_mergers.py 101-130: BasicLineMerger.merge.
BasicLineMerge ==
    /\ m_pc = "start"
    /\ m_merger = "line"
    /\ LET r == LineMergerMerge(m_chars, m_textpage, m_page_height) IN
       /\ m_blocks' = r.blocks
       /\ m_runs' = r.runs
    /\ m_pc' = "done"
    /\ UNCHANGED <<ovars, bvars, gvars, cvars, yvars>>
    /\ UNCHANGED <<m_merger, m_chars, m_textpage, m_page_height>>

\* extractors/character_mergers.py 176-197: KeepCharacterMerger.merge.
KeepCharacterMerge ==
    /\ m_pc = "start"
    /\ m_merger = "keep"
    /\ LET r == KeepMergerMerge(m_chars, m_textpage, m_page_height) IN
       /\ m_blocks' = r.blocks
       /\ m_runs' = r.runs
    /\ m_pc' = "done"
    /\ UNCHANGED <<ovars, bvars, gvars, cvars, yvars>>
    /\ UNCHANGED <<m_merger, m_chars, m_textpage, m_page_height>>

MNext ==
    \/ BasicLineMerge
    \/ KeepCharacterMerge

SpecMerge == MInit /\ [][MNext]_vars

\* ------------------------------------------------------------------ image-based extractor
\* The page arguments a caller passes: every valid index, and indexes past
\* either end.
PageArgs == (-(MaxImages + 1))..(MaxImages + 1)

\* The outcomes of _do_ocr: it returns, or raises an exception extract_page
\* catches, or one it does not catch.
OcrOutcomes == {"ok", "RuntimeError", "ValueError"}

\* _ocr_base.py 33-54: the extractor is constructed and its images are loaded.
IInit ==
    /\ ExtractorIdle
    /\ BatchIdle
    /\ GeomIdle
    /\ ConvertIdle
    /\ MergeIdle
    /\ ReaderIdle
    /\ AggregateIdle
    /\ \E n \in 0..MaxImages : i_loaded = [k \in 1..n |-> k]
    /\ i_images = i_loaded
    /\ i_closed = {}
    /\ i_closes = 0
    /\ i_with = "none"
    /\ i_last = NoCall

\* _ocr_base.py 60-90: extract_page(page).
ImgExtractPage(page, ocr) ==
    /\ i_with # "idle"
    /\ i_last' = [op |-> "extract_page", arg |-> page, n |-> Len(i_images),
                  closes |-> i_closes, out |-> ImageExtractPage(i_images, page, ocr)]
    /\ UNCHANGED <<ovars, bvars, gvars, cvars, mvars, rvars, avars>>
    /\ UNCHANGED <<i_loaded, i_images, i_closed, i_closes, i_with>>

\* _ocr_base.py 56-58: get_page_count().
ImgGetPageCount ==
    /\ i_with # "idle"
    /\ i_last' = [op |-> "get_page_count", closes |-> i_closes, out |-> Len(i_images)]
    /\ UNCHANGED <<ovars, bvars, gvars, cvars, mvars, rvars, avars>>
    /\ UNCHANGED <<i_loaded, i_images, i_closed, i_closes, i_with>>

\* _ocr_base.py 104-111: close() closes every image of the list and empties it.
ImgClose ==
    /\ i_with # "idle"
    /\ i_closes < MaxCloses
    /\ i_closed' = i_closed \cup SeqToSet(i_images)
    /\ i_images' = ImagesAfterClose(i_images)
    /\ i_closes' = i_closes + 1
    /\ i_last' = [op |-> "close", closes |-> i_closes,
                  images |-> i_images, closed |-> i_closed]
    /\ UNCHANGED <<ovars, bvars, gvars, cvars, mvars, rvars, avars>>
    /\ UNCHANGED <<i_loaded, i_with>>

\* base.py 232-233: __enter__ returns the extractor.
ImgEnter ==
    /\ i_with = "none"
    /\ i_with' = "inside"
    /\ i_last' = [op |-> "enter", closes |-> i_closes]
    /\ UNCHANGED <<ovars, bvars, gvars, cvars, mvars, rvars, avars>>
    /\ UNCHANGED <<i_loaded, i_images, i_closed, i_closes>>

\* base.py 235-236: __exit__ calls close(), however the block is left.
ImgExit ==
    /\ i_with = "inside"
    /\ i_closes < MaxCloses
    /\ i_with' = "exited"
    /\ i_closed' = i_closed \cup SeqToSet(i_images)
    /\ i_images' = ImagesAfterClose(i_images)
    /\ i_closes' = i_closes + 1
    /\ i_last' = [op |-> "exit", closes |-> i_closes,
                  images |-> i_images, closed |-> i_closed]
    /\ UNCHANGED <<ovars, bvars, gvars, cvars, mvars, rvars, avars>>
    /\ UNCHANGED i_loaded

INext ==
    \/ \E page \in PageArgs, ocr \in OcrOutcomes : ImgExtractPage(page, ocr)
    \/ ImgGetPageCount
    \/ ImgClose
    \/ ImgEnter
    \/ ImgExit

SpecImage == IInit /\ [][INext]_vars

\* ------------------------------------------------------------------ cached OCR reader
\* easy_ocr.py 23: the module is imported, _reader_cache is empty.
RInit ==
    /\ ExtractorIdle
    /\ BatchIdle
    /\ GeomIdle
    /\ ConvertIdle
    /\ MergeIdle
    /\ ImageIdle
    /\ AggregateIdle
    /\ r_cache = [k \in ReaderKeys |-> 0]
    /\ r_pc = [t \in Threads |-> "idle"]
    /\ r_key = [t \in Threads |-> "en"]
    /\ r_new = [t \in Threads |-> 0]
    /\ r_calls = [t \in Threads |-> 0]
    /\ r_made = [k \in ReaderKeys |-> {}]
    /\ r_returned = {}

ROthersUnchanged == UNCHANGED <<ovars, bvars, gvars, cvars, mvars, ivars, avars>>

\* The readers constructed so far, over all keys.
ReadersMade == UNION {r_made[k] : k \in ReaderKeys}

\* easy_ocr.py 26-28: a thread calls get_reader(languages, gpu).
ReaderCall(t, key) ==
    /\ r_pc[t] = "idle"
    /\ r_calls[t] < MaxCalls
    /\ r_calls' = [r_calls EXCEPT ![t] = @ + 1]
    /\ r_key' = [r_key EXCEPT ![t] = key]
    /\ r_pc' = [r_pc EXCEPT ![t] = "check"]
    /\ UNCHANGED <<r_cache, r_new, r_made, r_returned>>
    /\ ROthersUnchanged

\* easy_ocr.py 29: if key not in _reader_cache.
ReaderCheck(t) ==
    /\ r_pc[t] = "check"
    /\ r_pc' = [r_pc EXCEPT ![t] = IF r_cache[r_key[t]] = 0 THEN "construct" ELSE "return"]
    /\ UNCHANGED <<r_cache, r_key, r_new, r_calls, r_made, r_returned>>
    /\ ROthersUnchanged

\* easy_ocr.py 30, right-hand side: easyocr.Reader(languages, gpu=gpu).
ReaderConstruct(t) ==
    /\ r_pc[t] = "construct"
    /\ LET reader == Cardinality(ReadersMade) + 1 IN
       /\ r_new' = [r_new EXCEPT ![t] = reader]
       /\ r_made' = [r_made EXCEPT ![r_key[t]] = @ \cup {reader}]
    /\ r_pc' = [r_pc EXCEPT ![t] = "store"]
    /\ UNCHANGED <<r_cache, r_key, r_calls, r_returned>>
    /\ ROthersUnchanged

\* easy_ocr.py 30, assignment: _reader_cache[key] = the new reader.
ReaderStore(t) ==
    /\ r_pc[t] = "store"
    /\ r_cache' = [r_cache EXCEPT ![r_key[t]] = r_new[t]]
    /\ r_new' = [r_new EXCEPT ![t] = 0]
    /\ r_pc' = [r_pc EXCEPT ![t] = "return"]
    /\ UNCHANGED <<r_key, r_calls, r_made, r_returned>>
    /\ ROthersUnchanged

\* easy_ocr.py 31: return _reader_cache[key].
ReaderReturn(t) ==
    /\ r_pc[t] = "return"
    /\ r_returned' = r_returned \cup {<<r_key[t], r_cache[r_key[t]]>>}
    /\ r_pc' = [r_pc EXCEPT ![t] = "idle"]
    /\ UNCHANGED <<r_cache, r_key, r_new, r_calls, r_made>>
    /\ ROthersUnchanged

RNext ==
    \/ \E t \in Threads, key \in ReaderKeys : ReaderCall(t, key)
    \/ \E t \in Threads : ReaderCheck(t)
    \/ \E t \in Threads : ReaderConstruct(t)
    \/ \E t \in Threads : ReaderStore(t)
    \/ \E t \in Threads : ReaderReturn(t)

SpecReader == RInit /\ [][RNext]_vars

\* ------------------------------------------------------------------ batch aggregates
\* The usage maps a batch result carries: none, an empty one, and maps with one
\* or both keys, a value 0 included.
UsageChoices ==
    {NoUsage,
     SomeUsage(EmptyDict),
     SomeUsage(MkDict({"prompt_tokens"}, [prompt_tokens |-> 2, completion_tokens |-> 0])),
     SomeUsage(MkDict({"completion_tokens"}, [prompt_tokens |-> 0, completion_tokens |-> 0])),
     SomeUsage(MkDict(UsageKeys, [prompt_tokens |-> 1, completion_tokens |-> 3]))}

\* The batch result at position i: its pages are <<i - 1>>, its payload, when
\* it has one, is the payload of those pages.
BatchResultAt(i, ok, hasData, usage) ==
    MkBatchResult(IF hasData THEN [pages |-> <<i - 1>>] ELSE NoneVal, <<i - 1>>, usage, ok,
                  IF ok THEN "None" ELSE "API error")

AInit ==
    /\ ExtractorIdle
    /\ BatchIdle
    /\ GeomIdle
    /\ ConvertIdle
    /\ MergeIdle
    /\ ImageIdle
    /\ ReaderIdle
    /\ \E choice \in SeqsUpTo(BOOLEAN \X BOOLEAN \X UsageChoices, MaxBatches) :
          a_batch_results =
              [i \in 1..Len(choice) |->
                  BatchResultAt(i, choice[i][1], choice[i][2], choice[i][3])]
    /\ a_pc = "start"
    /\ a_out = NoneVal

AOthersUnchanged == UNCHANGED <<ovars, bvars, gvars, cvars, mvars, ivars, rvars>>

\* llm/models.py 64-67: the property successful_batches is read.
ReadSuccessfulBatches ==
    /\ a_pc = "start"
    /\ a_out' = [value |-> SuccessfulBatches(a_batch_results)]
    /\ a_pc' = "successful_batches"
    /\ UNCHANGED a_batch_results
    /\ AOthersUnchanged

\* llm/models.py 69-72: the property failed_batches is read.
ReadFailedBatches ==
    /\ a_pc = "start"
    /\ a_out' = [value |-> FailedBatches(a_batch_results)]
    /\ a_pc' = "failed_batches"
    /\ UNCHANGED a_batch_results
    /\ AOthersUnchanged

\* llm/models.py 74-77: the property all_data is read.
ReadAllData ==
    /\ a_pc = "start"
    /\ a_out' = [value |-> AllData(a_batch_results)]
    /\ a_pc' = "all_data"
    /\ UNCHANGED a_batch_results
    /\ AOthersUnchanged

\* llm/models.py 79-87: the property total_usage is read.
ReadTotalUsage ==
    /\ a_pc = "start"
    /\ a_out' = [value |-> TotalUsage(a_batch_results, Len(a_batch_results))]
    /\ a_pc' = "total_usage"
    /\ UNCHANGED a_batch_results
    /\ AOthersUnchanged

ANext ==
    \/ ReadSuccessfulBatches
    \/ ReadFailedBatches
    \/ ReadAllData
    \/ ReadTotalUsage

SpecAggregate == AInit /\ [][ANext]_vars

\* ------------------------------------------------------------------ properties
Requested == PagesList(pages)

Returned == pc \in {"returned", "done"}

ParallelPath == ~IsSequential(max_workers, Requested)

Executing == Cardinality(Running) + (IF cur # 0 THEN 1 ELSE 0)

MaxOf(a, b) == IF a >= b THEN a ELSE b

\* r is the outcome of extract_page(p): the value it returned, or a failed
\* result for page p when it raised.
IsOutcomeOf(r, p) ==
    LET o == ExtractPage(p) IN
    IF o.kind = "return" THEN r = o.value
    ELSE r.success = FALSE /\ r.page.page = p

\* The positions of the successful results of rs, ascending.
RECURSIVE SuccessPositions(_, _)
SuccessPositions(rs, n) ==
    IF n = 0 THEN <<>>
    ELSE IF rs[n].success THEN Append(SuccessPositions(rs, n - 1), n)
    ELSE SuccessPositions(rs, n - 1)

\* C1: when extract_pages returns, the list has the length of the request and
\* position i holds the outcome of extract_page(requested[i]), for every request
\* (duplicates, unsorted), every max_workers and both executor types.
C1_SyncOrderPreserved ==
    (api = "sync" /\ Returned) =>
        /\ Len(results) = Len(Requested)
        /\ \A i \in 1..Len(Requested) : IsOutcomeOf(results[i], Requested[i])

C1_Witness ==
    /\ api = "sync"
    /\ executor = "process"
    /\ pc = "returned"
    /\ max_workers >= 2
    /\ pages = SomePages(<<2, 0, 0>>)

\* C2: for every max_workers an exception of extract_page never propagates out
\* of extract_pages, which returns one result per requested index with a failed
\* result at the raising index.
C2_SyncNeverPropagates ==
    api = "sync" =>
        /\ pc # "raised"
        /\ Returned =>
              /\ Len(results) = Len(Requested)
              /\ \A i \in 1..Len(Requested) :
                    Requested[i] \in raising => ~results[i].success

\* C3: in the parallel path of extract_pages a raise at position k gives
\* ExtractionResult(success=false, error=str(exception), page=Page(requested[k],
\* 0, 0, [])) at k, and every other position holds what extract_page returned.
C3_ParallelFaultIsolation ==
    (api = "sync" /\ Returned /\ ParallelPath) =>
        \A k \in 1..Len(Requested) :
            LET o == ExtractPage(Requested[k]) IN
            IF o.kind = "raise"
            THEN results[k] = [page |-> [page |-> Requested[k], width |-> 0,
                                         height |-> 0, texts |-> <<>>],
                               success |-> FALSE, error |-> o.msg]
            ELSE results[k] = o.value

C3_Witness ==
    /\ api = "sync"
    /\ pc = "returned"
    /\ ParallelPath
    /\ \E k \in 1..Len(Requested) : k # Requested[k] + 1 /\ Requested[k] \in raising
    /\ \E k \in 1..Len(Requested) : results[k].success

\* C4: the Document of extract / extract_async holds exactly the pages of the
\* successful results, in result order.
C4_DocumentIsSuccessfulPages ==
    pc = "done" =>
        LET idx == SuccessPositions(results, Len(results)) IN
        /\ Len(document) = Len(idx)
        /\ \A j \in 1..Len(idx) : document[j] = results[idx[j]].page

C4_Witness ==
    /\ pc = "done"
    /\ \E i, j \in 1..Len(results) :
          i < j /\ ~results[i].success /\ results[j].success
    /\ Len(document) >= 2

\* C5: when extract_pages_async returns, position i holds the outcome for
\* requested[i], whatever order the offloaded extractions finish in.
C5_AsyncOrderPreserved ==
    (api = "async" /\ Returned) =>
        /\ Len(results) = Len(Requested)
        /\ \A i \in 1..Len(Requested) : IsOutcomeOf(results[i], Requested[i])

C5_Witness ==
    /\ api = "async"
    /\ pc = "returned"
    /\ max_workers >= 2
    /\ pages = SomePages(<<2, 0, 1>>)
    /\ raising = {1}

\* C6: for every max_workers an exception of extract_page during
\* extract_pages_async is captured as a failed result at its position; the
\* coroutine does not raise.
C6_AsyncNeverPropagates ==
    api = "async" =>
        /\ pc # "raised"
        /\ Returned =>
              /\ Len(results) = Len(Requested)
              /\ \A i \in 1..Len(Requested) :
                    Requested[i] \in raising =>
                        results[i] = [page |-> [page |-> Requested[i], width |-> 0,
                                                height |-> 0, texts |-> <<>>],
                                      success |-> FALSE, error |-> "Simulated error"]

\* C7: at no moment of a call with max_workers = w are more than max(1, w)
\* extract_page calls executing.
C7_BoundedConcurrency == Executing <= MaxOf(1, max_workers)

C7_Witness ==
    /\ max_workers >= 2
    /\ Cardinality(Running) = max_workers
    /\ \E i \in DOMAIN fut : fut[i] = "queued"

BRequested == PagesList(b_pages)

BatchRaises(batch) == \E i \in 1..Len(batch) : batch[i] \in b_failing

RECURSIVE Flatten(_)
Flatten(ss) == IF Len(ss) = 0 THEN <<>> ELSE Head(ss) \o Flatten(Tail(ss))

\* C8: extract_structured_parallel returns one batch result per batch of
\* _batch_pages(pages, pages_per_batch) and batch_results[i].pages is the i-th
\* batch, for every max_workers, both executor types and every completion order.
C8_BatchOrderPreserved ==
    b_pc = "returned" =>
        LET bs == BatchPages(BRequested, pages_per_batch) IN
        /\ Len(batch_results) = Len(bs)
        /\ \A i \in 1..Len(bs) : batch_results[i].pages = bs[i]

C8_Witness ==
    /\ b_pc = "returned"
    /\ b_executor = "process"
    /\ b_max_workers >= 2
    /\ b_pages = SomePages(<<2, 0, 1>>)
    /\ pages_per_batch = 2
    /\ batch_results = <<ExtractBatch(<<2, 0>>), ExtractBatch(<<1>>)>>

\* C9: in both paths a batch whose extraction raises yields success=false,
\* data=None, error = the message and pages = that batch, and every other batch
\* has the result its own extraction produced.
C9_BatchFaultIsolation ==
    b_pc = "returned" =>
        /\ Len(batch_results) = Len(batches)
        /\ \A i \in 1..Len(batches) :
              IF BatchRaises(batches[i])
              THEN /\ batch_results[i].success = FALSE
                   /\ batch_results[i].data = NoneVal
                   /\ batch_results[i].error = "API error"
                   /\ batch_results[i].pages = batches[i]
              ELSE /\ batch_results[i].success = TRUE
                   /\ batch_results[i].data = [pages |-> batches[i]]
                   /\ batch_results[i].error = "None"
                   /\ batch_results[i].pages = batches[i]

C9_Witness ==
    /\ b_pc = "returned"
    /\ b_max_workers <= 1
    /\ Len(batches) = 3
    /\ BatchRaises(batches[2])
    /\ ~batch_results[2].success
    /\ batch_results[1].success /\ batch_results[3].success

\* C10: for pages_per_batch >= 1, _batch_pages returns contiguous chunks whose
\* concatenation is the input, every chunk has 1..pages_per_batch elements, every
\* chunk but the last has exactly pages_per_batch, and [] gives [].
C10_BatchPagesChunks ==
    b_pc \in {"seq", "submit", "collect", "returned"} =>
        /\ Flatten(batches) = BRequested
        /\ \A k \in 1..Len(batches) :
              Len(batches[k]) >= 1 /\ Len(batches[k]) <= pages_per_batch
        /\ \A k \in 1..(Len(batches) - 1) : Len(batches[k]) = pages_per_batch
        /\ (Len(BRequested) = 0 => batches = <<>>)

C10_Witness ==
    /\ b_pc = "seq"
    /\ pages_per_batch = 2
    /\ b_pages = SomePages(<<1, 0, 1>>)
    /\ batches = << <<1, 0>>, <<1>> >>

\* ------------------------------------------------------------------ geometry properties
GCalled == g_pc \in {"done", "raised"} /\ g_out # NoneVal

\* The polygon is a quadrilateral in the form the backend takes.
GQuadrilateral == Len(g_points) = 4 /\ ~g_extra

\* The polygon has fewer than 4 points, or fewer than 8 flat values.
GDegenerate ==
    IF g_backend = "azure" THEN Len(FlatPolygon(g_points, g_extra)) < 8
    ELSE Len(g_points) < 4

GXs == {g_points[k][1] : k \in 1..Len(g_points)}

GYs == {g_points[k][2] : k \in 1..Len(g_points)}

\* C11: for a quadrilateral, in the flat and in the point-list form, the bbox is
\* (min x, min y, max x, max y) over the four corners, so it is the same for
\* both forms, and x0 <= x1 and y0 <= y1.
C11_BBoxIsMinMax ==
    (GCalled /\ GQuadrilateral) =>
        /\ g_out.kind = "return"
        /\ g_out.bbox.x0 \in GXs /\ \A x \in GXs : g_out.bbox.x0 <= x
        /\ g_out.bbox.y0 \in GYs /\ \A y \in GYs : g_out.bbox.y0 <= y
        /\ g_out.bbox.x1 \in GXs /\ \A x \in GXs : g_out.bbox.x1 >= x
        /\ g_out.bbox.y1 \in GYs /\ \A y \in GYs : g_out.bbox.y1 >= y
        /\ g_out.bbox.x0 <= g_out.bbox.x1
        /\ g_out.bbox.y0 <= g_out.bbox.y1

C11_Witness ==
    /\ GCalled
    /\ g_backend = "azure"
    /\ g_points = << <<1, 0>>, <<0, 1>>, <<0, 0>>, <<1, 1>> >>
    /\ g_out.bbox = MkBBox(0, 0, 1, 1)

\* C12: a polygon with fewer than 4 points (fewer than 8 flat values), the empty
\* one included, gives BBox(0,0,0,0) and rotation 0.0 in every backend's
\* conversion, which never raises.
C12_DegenerateFallback ==
    (GCalled /\ GDegenerate) =>
        /\ g_out.kind = "return"
        /\ g_out.bbox = ZeroBBox
        /\ g_out.rotation = ZeroDegrees

\* ------------------------------------------------------------------ conversion properties
\* |a - b| <= 0.01
WithinTolerance(a, b) == AbsVal(a.n * b.d - b.n * a.d) * ToleranceInv <= a.d * b.d

BBoxWithinTolerance(a, b) ==
    /\ WithinTolerance(a.x0, b.x0)
    /\ WithinTolerance(a.y0, b.y0)
    /\ WithinTolerance(a.x1, b.x1)
    /\ WithinTolerance(a.y1, b.y1)

C14_SameUnitIdentity ==
    /\ (c_caller = "convert" /\ c_source = c_output /\ c_pc \in {"converted", "again", "raised"}) =>
          (c_out.kind = "page" /\ c_out.page = c_page)
    /\ (c_caller = "pdf" /\ c_source = c_output /\ c_pc = "extracted") =>
          (c_out.kind = "result" /\ c_out.page = c_page)

C14_Witness ==
    /\ c_pc = "again"
    /\ c_source = "normalized"
    /\ c_output = "normalized"
    /\ c_page.texts[1].bbox.x1 = Rat(1, 2)
    /\ c_out.page = c_page

\* C15: a conversion between different units of which one is pixels, called
\* without a DPI, is rejected and the rejection reaches the caller of the
\* extraction as a raise, also when extract_page of a PDF extractor triggers it.
C15_MissingDpiSurfaced ==
    (/\ c_pc \in {"converted", "raised", "back", "extracted"}
     /\ c_source # c_output
     /\ "pixels" \in {c_source, c_output}
     /\ c_dpi = NoDpi) =>
        (c_pc = "raised" /\ c_out.kind = "raise")

\* ------------------------------------------------------------------ merger properties
LineDone == m_pc = "done" /\ m_merger = "line"

KeepDone == m_pc = "done" /\ m_merger = "keep"

\* The positions of the finalized runs, run after run.
RunMembers == Flatten([k \in 1..Len(m_runs) |-> m_runs[k].members])

\* The run the character at position i was put in.
RunIndex(i) ==
    CHOOSE k \in 1..Len(m_runs) :
        \E j \in 1..Len(m_runs[k].members) : m_runs[k].members[j] = i

\* The characters of run k, concatenated in input order.
RunText(k) == [j \in 1..Len(m_runs[k].members) |-> m_chars[m_runs[k].members[j]].char]

RECURSIVE EmittedRuns(_)
EmittedRuns(n) ==
    IF n = 0 THEN <<>>
    ELSE IF m_runs[n].emitted THEN Append(EmittedRuns(n - 1), n)
    ELSE EmittedRuns(n - 1)

NonSpace(t) == SelectSeq(t, LAMBDA ch : ~IsSpace(ch))

\* C16 as stated: two consecutive characters are in the same block exactly when
\* the gap between their top edges (y1 of the native box, y upwards) is at most
\* the threshold.
C16_BoundaryByTopEdge ==
    LineDone =>
        /\ RunMembers = [i \in 1..Len(m_chars) |-> i]
        /\ \A i \in 2..Len(m_chars) :
              (RunIndex(i) = RunIndex(i - 1))
                  <=> (AbsVal(m_chars[i].bbox.y1 - m_chars[i - 1].bbox.y1) <= LineGapThreshold)

\* C16 (amended): the runs of the line merger are consecutive characters in
\* input order, and two consecutive characters are in the same run exactly when
\* the gap between their bbox[1] (y0 of the native box, its lower edge) is at
\* most the threshold 5.0, and in different runs exactly when it is larger;
\* only the immediate predecessor is compared.
C16_BoundaryByY0 ==
    LineDone =>
        /\ RunMembers = [i \in 1..Len(m_chars) |-> i]
        /\ \A i \in 2..Len(m_chars) :
              (RunIndex(i) = RunIndex(i - 1))
                  <=> (AbsVal(m_chars[i].bbox.y0 - m_chars[i - 1].bbox.y0) <= LineGapThreshold)

C16_Witness ==
    /\ LineDone
    /\ Len(m_chars) = 3
    /\ m_chars[2].bbox.y0 - m_chars[1].bbox.y0 = LineGapThreshold
    /\ m_chars[2].bbox.y1 - m_chars[1].bbox.y1 > LineGapThreshold
    /\ m_chars[3].bbox.y0 - m_chars[2].bbox.y0 = LineGapThreshold + 1
    /\ Len(m_runs) = 2
    /\ m_runs[1].members = <<1, 2>>
    /\ m_runs[2].members = <<3>>

\* C17: the line merger emits no block for a run whose trimmed text is empty,
\* every emitted block's text is the trimmed concatenation of its run's
\* characters in input order, and the non-whitespace characters of the blocks,
\* block after block, are those of the input in input order.
C17_TrimmedRunTexts ==
    LineDone =>
        LET em == EmittedRuns(Len(m_runs)) IN
        /\ \A k \in 1..Len(m_runs) : m_runs[k].emitted <=> (Strip(RunText(k)) # <<>>)
        /\ Len(m_blocks) = Len(em)
        /\ \A j \in 1..Len(em) :
              /\ m_blocks[j].text = Strip(RunText(em[j]))
              /\ Strip(m_blocks[j].text) # <<>>
        /\ NonSpace(Flatten([j \in 1..Len(m_blocks) |-> m_blocks[j].text]))
              = NonSpace([i \in 1..Len(m_chars) |-> m_chars[i].char])

C17_Witness ==
    /\ LineDone
    /\ Len(m_chars) = 3
    /\ Len(m_runs) = 2
    /\ m_runs[1].members = <<1>>
    /\ ~m_runs[1].emitted
    /\ m_runs[2].members = <<2, 3>>
    /\ m_chars[3].char = " "
    /\ Len(m_blocks) = 1
    /\ m_blocks[1].text = <<"b">>

\* C18: a block of the line merger has the bbox (min x0, H - max y1, max x1,
\* H - min y0) over its run's native boxes, so y0 <= y1, the rotation of the
\* run's first character, and the font looked up with the first character's index.
C18_BlockGeometry ==
    LineDone =>
        LET em == EmittedRuns(Len(m_runs)) IN
        /\ Len(m_blocks) = Len(em)
        /\ \A j \in 1..Len(em) :
              LET mem == m_runs[em[j]].members
                  M == {mem[q] : q \in 1..Len(mem)}
                  b == m_blocks[j].bbox
                  H == m_page_height
              IN  /\ \E i \in M : b.x0 = m_chars[i].bbox.x0
                  /\ \A i \in M : b.x0 <= m_chars[i].bbox.x0
                  /\ \E i \in M : b.y0 = H - m_chars[i].bbox.y1
                  /\ \A i \in M : b.y0 <= H - m_chars[i].bbox.y1
                  /\ \E i \in M : b.x1 = m_chars[i].bbox.x1
                  /\ \A i \in M : b.x1 >= m_chars[i].bbox.x1
                  /\ \E i \in M : b.y1 = H - m_chars[i].bbox.y0
                  /\ \A i \in M : b.y1 >= H - m_chars[i].bbox.y0
                  /\ b.y0 <= b.y1
                  /\ m_blocks[j].rotation = m_chars[mem[1]].rotation
                  /\ m_blocks[j].font_info = ExtractFontInfo(m_textpage, m_chars[mem[1]].index)

C18_Witness ==
    /\ LineDone
    /\ Len(m_chars) = 3
    /\ m_textpage # NoneVal
    /\ Len(m_blocks) = 2
    /\ m_runs[2].members = <<2, 3>>
    /\ m_chars[2].bbox = MkBBox(1, LineGapThreshold, 2, LineGapThreshold + 1)
    /\ m_chars[3].bbox = MkBBox(0, 0, 3, LineGapThreshold + 2)
    /\ m_blocks[2].bbox = MkBBox(0, m_page_height - (LineGapThreshold + 2), 3, m_page_height)
    /\ m_blocks[2].rotation = 0
    /\ m_blocks[2].font_info = [size |-> 11]

\* C19: the per-character merger returns one block per input character, in
\* input order: block i has the character i as text, its box flipped to
\* (x0, H - y1, x1, H - y0), its rotation and the font looked up with its index.
C19_OneBlockPerChar ==
    KeepDone =>
        /\ Len(m_blocks) = Len(m_chars)
        /\ \A i \in 1..Len(m_chars) :
              /\ m_blocks[i].text = <<m_chars[i].char>>
              /\ m_blocks[i].bbox.x0 = m_chars[i].bbox.x0
              /\ m_blocks[i].bbox.y0 = m_page_height - m_chars[i].bbox.y1
              /\ m_blocks[i].bbox.x1 = m_chars[i].bbox.x1
              /\ m_blocks[i].bbox.y1 = m_page_height - m_chars[i].bbox.y0
              /\ m_blocks[i].rotation = m_chars[i].rotation
              /\ m_blocks[i].font_info = ExtractFontInfo(m_textpage, m_chars[i].index)

C19_Witness ==
    /\ KeepDone
    /\ Len(m_chars) = 3
    /\ m_textpage # NoneVal
    /\ m_chars[2].char = " "
    /\ Len(m_blocks) = 3
    /\ m_blocks[2].text = <<" ">>
    /\ m_blocks[3].text = <<"c">>
    /\ m_blocks[3].font_info = [size |-> 12]

\* C20: no block whose text is empty after trimming is ever emitted, by a
\* character merger or by a backend result converter.
C20_NoBlankTextBlock ==
    /\ \A i \in 1..Len(m_blocks) : Strip(m_blocks[i].text) # <<>>
    /\ \A i \in 1..Len(g_blocks) : ~IsBlank(g_blocks[i].text)

\* ------------------------------------------------------------------ image extractor properties
\* C21: extract_page(i) for an index outside 0..n-1, too large or negative,
\* returns a failed result with an out-of-range error and the empty page
\* numbered i; it never raises and never returns another page's content.
C21_OutOfRangeFails ==
    (/\ i_last.op = "extract_page"
     /\ ~(0 <= i_last.arg /\ i_last.arg < i_last.n)) =>
        /\ i_last.out.kind = "result"
        /\ ~i_last.out.success
        /\ i_last.out.error \in {"Page out of range", "list index out of range"}
        /\ i_last.out.page = EmptyPage(i_last.arg)

C22_OneReaderPerKey ==
    /\ \A k \in ReaderKeys : Cardinality(r_made[k]) <= 1
    /\ \A a, b \in r_returned : (a[1] = b[1]) <=> (a[2] = b[2])

\* ------------------------------------------------------------------ batch aggregate properties
\* The j-th smallest position of a set of positions.
NthOf(S, j) == CHOOSE i \in S : Cardinality({h \in S : h < i}) = j - 1

\* out is the batch results at the positions S, in batch order.
IsSelection(out, S) ==
    /\ Len(out) = Cardinality(S)
    /\ \A j \in 1..Len(out) : out[j] = a_batch_results[NthOf(S, j)]

\* out is the payloads of the batch results at the positions S, in batch order.
IsDataOf(out, S) ==
    /\ Len(out) = Cardinality(S)
    /\ \A j \in 1..Len(out) : out[j] = a_batch_results[NthOf(S, j)].data

ABatches == 1..Len(a_batch_results)

\* The batch results whose usage map contains the key.
Carrying(k) ==
    {i \in ABatches : ~a_batch_results[i].usage.isNone /\ k \in a_batch_results[i].usage.dict.keys}

RECURSIVE SumOfKey(_, _)
SumOfKey(k, n) ==
    IF n = 0 THEN 0
    ELSE SumOfKey(k, n - 1)
            + (IF n \in Carrying(k) THEN a_batch_results[n].usage.dict.val[k] ELSE 0)

\* C23: total_usage has exactly the keys some batch's usage map contains, each
\* with the sum of its values over the batches whose usage map contains it; a
\* batch without usage adds nothing and the property still returns.
C23_TotalUsageIsSum ==
    a_pc = "total_usage" =>
        /\ a_out.value.keys = {k \in UsageKeys : Carrying(k) # {}}
        /\ \A k \in a_out.value.keys :
              a_out.value.val[k] = SumOfKey(k, Len(a_batch_results))

C23_Witness ==
    /\ a_pc = "total_usage"
    /\ Len(a_batch_results) = 3
    /\ a_batch_results[1].usage.dict.keys = {"prompt_tokens"}
    /\ a_batch_results[2].usage.isNone
    /\ a_batch_results[3].usage.dict.keys = UsageKeys
    /\ a_out.value = MkDict(UsageKeys, [prompt_tokens |-> 3, completion_tokens |-> 3])

\* C24 as stated: all_data has one entry per successful batch, the payloads of
\* the successful batches in batch order.
C24_AllDataPerSuccessfulBatch ==
    a_pc = "all_data" =>
        IsDataOf(a_out.value, {i \in ABatches : a_batch_results[i].success})

\* C24 (amended): all_data is the payloads of the successful batches whose
\* payload is not None, in batch order, so it holds no payload of a failed
\* batch; successful_batches and failed_batches are the batch results with and
\* without the success flag, each in batch order.
C24_AllDataAndPartition ==
    /\ a_pc = "all_data" =>
          IsDataOf(a_out.value,
                   {i \in ABatches : a_batch_results[i].success
                                        /\ a_batch_results[i].data # NoneVal})
    /\ a_pc = "successful_batches" =>
          IsSelection(a_out.value, {i \in ABatches : a_batch_results[i].success})
    /\ a_pc = "failed_batches" =>
          IsSelection(a_out.value, {i \in ABatches : ~a_batch_results[i].success})

C24_Witness ==
    /\ a_pc = "all_data"
    /\ Len(a_batch_results) = 3
    /\ a_batch_results[1].success /\ a_batch_results[1].data = NoneVal
    /\ ~a_batch_results[2].success /\ a_batch_results[2].data # NoneVal
    /\ a_batch_results[3].success
    /\ a_out.value = << [pages |-> <<2>>] >>

\* ------------------------------------------------------------------ rotation properties
\* C25: for a quadrilateral whose edge from corner 0 to corner 1 is the zero
\* vector or points along +x, every backend's conversion gives rotation 0.0;
\* the rectangle (10,10),(110,10),(110,30),(10,30) gives bbox (10,10,110,30).
C25_ZeroRotation ==
    (/\ GCalled
     /\ GQuadrilateral
     /\ g_points[2][2] = g_points[1][2]
     /\ g_points[2][1] >= g_points[1][1]) =>
        /\ g_out.kind = "return"
        /\ g_out.rotation = ZeroDegrees
        /\ g_points = TestRectangle => g_out.bbox = MkBBox(10, 10, 110, 30)

C25_Witness ==
    /\ GCalled
    /\ g_backend = "easyocr"
    /\ g_points = TestRectangle
    /\ g_out.bbox = MkBBox(10, 10, 110, 30)
    /\ g_out.rotation = ZeroDegrees


\* ------------------------------------------------------------------ call order properties
\* The calls of a sequential pass over n positions: call 1, end 1, call 2, end 2, ...
CallsInOrder(n) ==
    [k \in 1..(2 * n) |-> IF k % 2 = 1 THEN <<"call", (k + 1) \div 2>>
                          ELSE <<"end", k \div 2>>]

\* extract_pages is over: it returned or an exception left it.
Over == pc \in {"returned", "raised", "done"}

\* C26: with max_workers <= 1 or fewer than 2 requested pages extract_pages
\* calls extract_page exactly once per requested position, in request order,
\* each call after the previous one has finished; with no pages requested the
\* positions are 0..page_count-1 ascending.
C26_SequentialOncePerPosition ==
    (api = "sync" /\ Over /\ ~ParallelPath) =>
        /\ pages.isNone => pages_list = [i \in 1..NumPages |-> i - 1]
        /\ trace = CallsInOrder(Len(pages_list))

\* ------------------------------------------------------------------ event loop properties
\* A page extraction is outstanding: submitted and not finished.
Outstanding == cur # 0 \/ \E i \in DOMAIN fut : fut[i] \in {"queued", "running"}

\* The thread of the event loop is inside a blocking call.
LoopBlocked == pc = "shutdown"

\* C27: in extract_pages_async every extract_page call runs on a worker thread,
\* never on the thread of the event loop, and while page extractions are
\* outstanding the event loop is not blocked.
C27_LoopNeverBlocked ==
    api = "async" =>
        /\ ran_on \subseteq {"default_executor", "pool"}
        /\ Outstanding => ~LoopBlocked


\* ------------------------------------------------------------------ pool properties
BParallelPath == ~IsSequential(b_max_workers, BatchPages(BRequested, pages_per_batch))

\* Every one of n positions is counted once.
OnceEach(counts, n) == counts = [i \in 1..n |-> 1]

\* C28: in the parallel paths of extract_pages and extract_structured_parallel
\* the call of every request position is submitted exactly once, every slot of
\* the pre-sized results array is written exactly once and only by the caller's
\* thread, which collects, and at the return no slot is None.
C28_SlotsWrittenOnce ==
    /\ (api = "sync" /\ ParallelPath /\ pc # "start") =>
          /\ \A i \in DOMAIN subs : subs[i] <= 1
          /\ \A i \in DOMAIN writes : writes[i] <= 1
          /\ wrote_on \subseteq {"caller"}
          /\ Returned =>
                /\ OnceEach(subs, Len(Requested))
                /\ OnceEach(writes, Len(Requested))
                /\ Len(results) = Len(Requested)
                /\ \A i \in 1..Len(results) : results[i] # NoneVal
    /\ (BParallelPath /\ b_pc \notin {"idle", "start"}) =>
          /\ \A i \in DOMAIN b_subs : b_subs[i] <= 1
          /\ \A i \in DOMAIN b_writes : b_writes[i] <= 1
          /\ b_wrote_on \subseteq {"caller"}
          /\ b_pc = "returned" =>
                /\ OnceEach(b_subs, Len(batches))
                /\ OnceEach(b_writes, Len(batches))
                /\ Len(batch_results) = Len(batches)
                /\ \A i \in 1..Len(batch_results) : batch_results[i] # NoneVal

C28_Witness ==
    /\ api = "sync"
    /\ pc = "returned"
    /\ ParallelPath
    /\ pages = SomePages(<<1, 0, 1>>)
    /\ writes = <<1, 1, 1>>
    /\ wrote_on = {"caller"}

\* C29: if every extract_page call ends, extract_pages with max_workers > 1
\* comes back to its caller, from the parallel path with the results, and at
\* that moment no worker of its pool is running or holding a call it submitted.
C29_PoolCallReturns ==
    /\ (pc = "start" /\ max_workers > 1) ~> Over
    /\ (pc = "submit") ~> (pc = "returned")
    /\ [](Over => \A i \in DOMAIN fut : fut[i] \notin {"queued", "running"})

C29_Witness ==
    /\ api = "sync"
    /\ pc = "returned"
    /\ max_workers > 1
    /\ Len(fut) = MaxLen
    /\ ran_on = {"pool"}
    /\ raising # {}

====
